---- MODULE Spec2Model ----
(***************************************************************************)
(* A model of dyike/eino-skills: the SKILL.md parser (section and outline  *)
(* extraction), the two-root loader, the Registry with its reader/writer   *)
(* lock and on-demand cache, and the debounced Watcher event loop.         *)
(*                                                                         *)
(* One module, five specifications over one variable list:                 *)
(*   SpecParser   Parser.ExtractSection / Parser.ExtractTOC on bounded     *)
(*                bodies (pure functions, applied by one action each);     *)
(*   SpecLoader   Loader.LoadMetadataOnly / Loader.LoadAll on bounded      *)
(*                filesystem contents;                                     *)
(*   Spec         the Registry under concurrent callers;                   *)
(*   SpecWatcher  the Watcher event loop with a discrete clock;            *)
(*   SpecDoc      Parser.Parse / Parser.ParseMetadataOnly on documents.    *)
(* Each specification leaves the variables of the others unchanged.        *)
(***************************************************************************)
EXTENDS Integers, Sequences, FiniteSets, TLC

VARIABLES
    \* ---- parser harness
    pBody,      \* the body handed to the parser: a sequence of lines, as strings.Split(body, "\n") yields
    pHeading,   \* the heading name handed to ExtractSection
    pSection,   \* ExtractSection's loop state and result, or NoResult before the call
    pTOC,       \* ExtractTOC's result, or NoResult before the call
    \* ---- loader harness
    lFs,        \* the two roots' contents handed to the loader
    lCancelled, \* whether the call's context is already cancelled
    lMeta,      \* LoadMetadataOnly's outcome, or NoResult before the call
    lAll,       \* LoadAll's outcome, or NoResult before the call
    lName,      \* the name LoadSkill is asked for
    lSkill,     \* LoadSkill's outcome, or NoResult before the call
    \* ---- the Registry and its callers
    disk,         \* the filesystem under the registry's loader
    metadata,   \* r.metadata
    skills,     \* r.skills: the cache, a map from name to Skill
    mu,         \* r.mu: the writer holding it and the readers holding it
    autoWatch,  \* r.autoWatch
    rwatcher,   \* r.watcher: NilWatcher, or the watcher's index in loops
    loops,      \* per watcher StartWatching made: its event loop is running
    pc,         \* per caller: where it stands in its call
    loc,        \* per caller: the call's arguments, locals and result
    loads,      \* Loader.LoadSkill calls begun; numbers the Skill instances
    inits,      \* Initialize/Reload calls begun
    metaGen,    \* history: assignments of r.metadata so far
    cacheGen,   \* history: resets of r.skills so far
    readTorn,   \* history: some read ran between the two
    inserted,   \* history, per name: the instances inserted since the last reset
    stopped,    \* history: a StopWatching has returned leaving no watcher running
                \* and no start under way, and no caller has called StartWatching since
    \* ---- the Watcher, its event loop and its callers
    now,        \* the clock, in ticks
    running,    \* w.running
    stopCh,     \* w.stopCh: "open" or "closed"
    doneCh,     \* w.doneCh: "open" or "closed"
    ctxDone,    \* the context given to Start is cancelled
    fsw,        \* the notification handle w.watcher: "open" or "closed"
    events,     \* w.watcher.Events with what the system buffers behind it
    errPending, \* w.watcher.Errors holds an error
    loopPc,     \* run: "off", "select", "reload" or "exited"
    timer,      \* run's timer and timerCh
    pending,    \* run's pending
    sPc,        \* per caller of Stop: where it stands
    lastRecv,   \* history: when the loop last took a qualifying event
    reloadsSince, \* history: reloads begun since then
    reloadGap,  \* history: ticks between that event and the last reload
    prevGap,    \* history: ticks between the last two qualifying events
    prevReloads, \* history: reloads begun between the last two
    stPc,       \* per caller of Start: where it stands
    launched,   \* history: event loops launched so far
    rootExists, \* the configured root is a directory when Start adds it
    newDir,     \* a directory made under the root while the loop runs
    lastReload, \* history: how the last reload ended
    \* ---- document harness
    dDoc,       \* the document handed to the parser: its lines, as bytes.Split(data, "\n") yields
    dParse,     \* Parser.Parse's result, or NoResult before the call
    dMeta,      \* Parser.ParseMetadataOnly's result, or NoResult before the call
    \* ---- query harness
    qMeta,      \* r.metadata as the queries find it
    qQuery,     \* the query handed to FindMatchingSkill
    qBase,      \* the base prompt handed to InjectPrompt
    qMatch,     \* FindMatchingSkill's result, or NoResult before the call
    qSection,   \* GenerateSystemPromptSection's result, or NoResult before the call
    qPrompt,    \* InjectPrompt's result, or NoResult before the call
    \* ---- content harness
    cFile,      \* the SKILL.md of the skill: what ParseFile makes of it
    cSkill,     \* one in-memory Skill: its Content
    cCalls,     \* calls of LoadSkillContent on it so far
    cReads,     \* history: calls of ParseFile so far
    cOut,       \* the last call's result, or NoResult before the first
    cSet        \* history: a call has read the document and set the body

pvars == <<pBody, pHeading, pSection, pTOC>>
lvars == <<lFs, lCancelled, lMeta, lAll, lName, lSkill>>
rvars == <<disk, metadata, skills, mu, autoWatch, rwatcher, loops, pc, loc,
           loads, inits, metaGen, cacheGen, readTorn, inserted, stopped>>

wvars == <<now, running, stopCh, doneCh, ctxDone, fsw, events, errPending, loopPc,
           timer, pending, sPc, lastRecv, reloadsSince, reloadGap, prevGap, prevReloads,
           stPc, launched, rootExists, newDir, lastReload>>

dvars == <<dDoc, dParse, dMeta>>

qvars == <<qMeta, qQuery, qBase, qMatch, qSection, qPrompt>>

cvars == <<cFile, cSkill, cCalls, cReads, cOut, cSet>>

vars == <<pvars, lvars, rvars, wvars, dvars, qvars, cvars>>

\* what the actions of one harness leave alone
notParser == <<lvars, rvars, wvars, dvars, qvars, cvars>>
notLoader == <<pvars, rvars, wvars, dvars, qvars, cvars>>
notRegWatch == <<pvars, lvars, wvars, dvars, qvars, cvars>>
notRegistry == <<notRegWatch, stopped>>
notWatcher == <<pvars, lvars, rvars, dvars, qvars, cvars>>
notDoc == <<pvars, lvars, rvars, wvars, qvars, cvars>>
notQuery == <<pvars, lvars, rvars, wvars, dvars, cvars>>
notContent == <<pvars, lvars, rvars, wvars, dvars, qvars>>

\* the value of a result variable before the call
NoResult == [none |-> TRUE]

(***************************************************************************)
(* Bounds.                                                                 *)
(***************************************************************************)
\* longest body, in lines
MaxLines == 3
\* Initialize/Reload calls in one run of the registry
MaxReloads == 2
\* Loader.LoadSkill calls in one run of the registry
MaxLoads == 2
\* the clock stops here
MaxTime == 5
\* events waiting for the loop
MaxQueue == 2
\* entries of the metadata list the queries run over
MaxEntries == 2
\* calls of LoadSkillContent on one Skill
MaxCalls == 3
\* watchers made by calls of StartWatching
MaxWatchers == 2
\* the debounce window (part_000:266, 100ms), in ticks
DebounceTicks == 2

(***************************************************************************)
(* Limits of the program.                                                  *)
(***************************************************************************)
\* part_002:326
MaxNameLength == 64
\* part_002:329
MaxDescriptionLength == 1024

(***************************************************************************)
(* Strings are sequences of one-character strings.                         *)
(***************************************************************************)
Rep(c, n) == [i \in 1..n |-> c]

\* unicode.IsSpace, on the characters the model has
IsSpace(c) == c \in {" ", "\n"}

RECURSIVE TrimLeftSpace(_)
TrimLeftSpace(s) ==
    IF s # <<>> /\ IsSpace(Head(s)) THEN TrimLeftSpace(Tail(s)) ELSE s

RECURSIVE TrimRightSpace(_)
TrimRightSpace(s) ==
    IF s # <<>> /\ IsSpace(s[Len(s)]) THEN TrimRightSpace(SubSeq(s, 1, Len(s) - 1)) ELSE s

\* strings.TrimSpace
TrimSpace(s) == TrimRightSpace(TrimLeftSpace(s))

\* strings.TrimLeft(s, cutset) for a one-character cutset
RECURSIVE TrimLeft(_, _)
TrimLeft(s, ch) ==
    IF s # <<>> /\ Head(s) = ch THEN TrimLeft(Tail(s), ch) ELSE s

\* strings.HasPrefix(s, ch) for a one-character prefix
HasPrefix(s, ch) == s # <<>> /\ Head(s) = ch

\* strings.ToLower on the model's alphabet
LowerChar(c) ==
    CASE c = "A" -> "a"
      [] c = "B" -> "b"
      [] OTHER -> c

ToLower(s) == [i \in 1..Len(s) |-> LowerChar(s[i])]

\* strings.EqualFold: equality under simple case folding
EqualFold(a, b) == ToLower(a) = ToLower(b)

\* strings.Contains
Contains(s, sub) ==
    \E i \in 0..(Len(s) - Len(sub)) : SubSeq(s, i + 1, i + Len(sub)) = sub

\* strings.Join(lines, "\n")
RECURSIVE Join(_)
Join(lines) ==
    IF lines = <<>> THEN <<>>
    ELSE IF Len(lines) = 1 THEN lines[1]
    ELSE lines[1] \o <<"\n">> \o Join(Tail(lines))

(***************************************************************************)
(* Parser.ExtractSection (part_003:163-194) and countPrefix (197-207).     *)
(***************************************************************************)
RECURSIVE countPrefix(_, _)
countPrefix(s, ch) ==
    IF s # <<>> /\ Head(s) = ch THEN 1 + countPrefix(Tail(s), ch) ELSE 0

\* A plausible slip: substring match instead of whole-label match.
headingMatchesSubstring(headingText, heading) ==
    Contains(ToLower(headingText), ToLower(heading))

\* part_003:175  strings.EqualFold(headingText, heading)
headingMatches(headingText, heading) == EqualFold(headingText, heading)

\* The loop's locals before the first line (part_003:165-167).
SectionInit == [result |-> <<>>, inSection |-> FALSE, sectionLevel |-> 0, brk |-> FALSE]

\* One iteration of the loop body (part_003:169-191); brk records the break.
SectionStep(st, line, heading) ==
    IF HasPrefix(line, "#")
    THEN LET level == countPrefix(line, "#")
             headingText == TrimSpace(TrimLeft(line, "#"))
         IN  IF headingMatches(headingText, heading)
             THEN [st EXCEPT !.inSection = TRUE,
                             !.sectionLevel = level,
                             !.result = Append(@, line)]
             ELSE IF st.inSection /\ level <= st.sectionLevel
             THEN [st EXCEPT !.brk = TRUE]
             ELSE IF st.inSection
             THEN [st EXCEPT !.result = Append(@, line)]
             ELSE st
    ELSE IF st.inSection
         THEN [st EXCEPT !.result = Append(@, line)]
         ELSE st

RECURSIVE SectionLoop(_, _, _)
SectionLoop(st, lines, heading) ==
    IF lines = <<>> \/ st.brk THEN st
    ELSE SectionLoop(SectionStep(st, Head(lines), heading), Tail(lines), heading)

\* The whole call: the loop's final locals and the returned string.
ExtractSection(body, heading) ==
    LET st == SectionLoop(SectionInit, body, heading)
    IN  [st EXCEPT !.brk = FALSE] @@ [out |-> TrimSpace(Join(st.result))]

(***************************************************************************)
(* Parser.ExtractTOC.  Its source is not among the files; it is modelled   *)
(* from the specification (section 4.1, "Outline extraction") and from     *)
(* TestExtractTOC (part_000:7-104): a line that, leading whitespace        *)
(* dropped, begins with 1..6 '#' yields one output line, the heading       *)
(* markup and the trimmed label behind 2*(level-1) spaces.                 *)
(***************************************************************************)
\* A plausible slip: the level itself taken as the depth.
TOCIndentOffByOne(level) == 2 * level

\* Indentation of a heading of `level`.
TOCIndent(level) == 2 * (level - 1)

TOCLine(line) ==
    LET trimmed == TrimSpace(line)
        level == countPrefix(trimmed, "#")
        label == TrimSpace(TrimLeft(trimmed, "#"))
    IN  Rep(" ", TOCIndent(level)) \o Rep("#", level) \o <<" ">> \o label

\* A plausible slip: the '#' are looked for in the first column.
IsTOCHeadingUntrimmed(line) ==
    LET level == countPrefix(line, "#") IN level >= 1 /\ level <= 6

IsTOCHeading(line) ==
    LET level == countPrefix(TrimSpace(line), "#") IN level >= 1 /\ level <= 6

RECURSIVE TOCLoop(_, _)
TOCLoop(acc, lines) ==
    IF lines = <<>> THEN acc
    ELSE IF IsTOCHeading(Head(lines))
         THEN TOCLoop(Append(acc, TOCLine(Head(lines))), Tail(lines))
         ELSE TOCLoop(acc, Tail(lines))

\* The outline's lines, and the returned string.
ExtractTOC(body) ==
    LET ls == TOCLoop(<<>>, body)
    IN  [lines |-> ls, out |-> Join(ls)]

(***************************************************************************)
(* Frontmatter.Validate (part_002:283-297), Parser.splitFrontmatter        *)
(* (part_003:115-159), Parser.Parse (31-50), Parser.ParseMetadataOnly      *)
(* (54-112).  A document is the list of its lines.                         *)
(*                                                                         *)
(* The YAML library is outside the program.  Of a header it is given, the  *)
(* model's Unmarshal reads the lines `n:<name>` and `d:<description>`,     *)
(* skips empty lines and rejects anything else and a repeated key.         *)
(***************************************************************************)
Dash3 == Rep("-", 3)

NoFm == [name |-> <<>>, desc |-> <<>>]

\* A plausible slip: a name of exactly the maximum length is rejected.
NameTooLongInclusive(name) == Len(name) >= MaxNameLength

\* part_002:287  len(f.Name) > MaxNameLength
NameTooLong(name) == Len(name) > MaxNameLength

\* part_002:283-297
Validate(fm) ==
    IF fm.name = <<>> THEN "ErrMissingName"
    ELSE IF NameTooLong(fm.name) THEN "ErrNameTooLong"
    ELSE IF fm.desc = <<>> THEN "ErrMissingDescription"
    ELSE IF Len(fm.desc) > MaxDescriptionLength THEN "ErrDescriptionTooLong"
    ELSE "none"

\* bytes.HasPrefix(s, prefix)
HasPrefixSeq(s, prefix) ==
    Len(s) >= Len(prefix) /\ SubSeq(s, 1, Len(prefix)) = prefix

KeyLine(key, value) == <<key, ":">> \o value

IsKeyLine(line, key) == HasPrefixSeq(line, <<key, ":">>)

\* yaml.Unmarshal on one line: a blank line is passed over, a key met for
\* the first time sets its field, anything else is an error
UnmarshalStep(st, line) ==
    IF st.err # "none" \/ TrimSpace(line) = <<>> THEN st
    ELSE IF IsKeyLine(line, "n") /\ "n" \notin st.seen
    THEN [st EXCEPT !.fm.name = SubSeq(line, 3, Len(line)), !.seen = @ \cup {"n"}]
    ELSE IF IsKeyLine(line, "d") /\ "d" \notin st.seen
    THEN [st EXCEPT !.fm.desc = SubSeq(line, 3, Len(line)), !.seen = @ \cup {"d"}]
    ELSE [st EXCEPT !.err = "yaml", !.fm = NoFm]

\* the lines lo..hi in order (taken by halves, which keeps the evaluation
\* shallow on long headers)
RECURSIVE UnmarshalLoop(_, _, _, _)
UnmarshalLoop(lines, st, lo, hi) ==
    IF lo > hi THEN st
    ELSE IF lo = hi THEN UnmarshalStep(st, lines[lo])
    ELSE LET mid == (lo + hi) \div 2
             first == UnmarshalLoop(lines, st, lo, mid)
         IN  IF first.err # "none" THEN first
             ELSE UnmarshalLoop(lines, first, mid + 1, hi)

\* yaml.Unmarshal into Frontmatter (part_003:39, 100)
Unmarshal(lines, fm, seen) ==
    LET r == UnmarshalLoop(lines, [err |-> "none", fm |-> fm, seen |-> seen], 1, Len(lines))
    IN  [err |-> r.err, fm |-> r.fm]

\* part_003:126-137  the loop over the lines; indices count from 0
RECURSIVE SplitLoop(_, _, _)
SplitLoop(lines, i, st) ==
    IF i >= Len(lines) THEN st
    ELSE IF TrimSpace(lines[i + 1]) = Dash3
    THEN IF ~st.foundStart
         THEN SplitLoop(lines, i + 1, [st EXCEPT !.fmStart = i, !.foundStart = TRUE])
         ELSE [st EXCEPT !.fmEnd = i]
    ELSE SplitLoop(lines, i + 1, st)

\* part_003:115-159
splitFrontmatter(lines) ==
    IF ~HasPrefixSeq(TrimSpace(Join(lines)), Dash3)
    THEN [err |-> "ErrInvalidFrontmatter", frontmatter |-> <<>>, body |-> <<>>]
    ELSE LET st == SplitLoop(lines, 0, [fmStart |-> 0, fmEnd |-> 0, foundStart |-> FALSE])
         IN  IF st.fmEnd = 0
             THEN [err |-> "missing closing", frontmatter |-> <<>>, body |-> <<>>]
             ELSE [err |-> "none",
                   frontmatter |-> SubSeq(lines, st.fmStart + 2, st.fmEnd),
                   body |-> TrimSpace(Join(SubSeq(lines, st.fmEnd + 2, Len(lines))))]

\* What a parse returns: the error; whether a header is returned and which;
\* the body; and, as history, the header as unmarshalled when the parse
\* came to validate it.
ParseResult(err, fm, body, validated) ==
    [err |-> err, hasFm |-> (err = "none"), fm |-> IF err = "none" THEN fm ELSE NoFm,
     body |-> IF err = "none" THEN body ELSE <<>>,
     validated |-> validated]

NotValidated == [reached |-> FALSE, fm |-> NoFm]

\* Parser.Parse, part_003:31-50
Parse(lines) ==
    LET sp == splitFrontmatter(lines)
        um == Unmarshal(sp.frontmatter, NoFm, {})
    IN  IF sp.err # "none" THEN ParseResult(sp.err, NoFm, <<>>, NotValidated)
        ELSE IF um.err # "none" THEN ParseResult(um.err, NoFm, <<>>, NotValidated)
        ELSE ParseResult(Validate(um.fm), um.fm, sp.body, [reached |-> TRUE, fm |-> um.fm])

\* part_003:85  the scan's safety limit, in lines read
LineLimit == 100

\* part_003:62-64  the scan's locals; done: the loop was left by break or
\* return
ScanInit ==
    [lineCount |-> 0, inFrontmatter |-> FALSE, frontmatterLines |-> <<>>,
     done |-> FALSE, err |-> "none"]

\* part_003:66-88  one turn of the scan's loop: the first line that trims to
\* `---` opens the header, the next one ends the loop; any other line is
\* kept if the header is open, and is an error if it is read after more
\* than 100 lines
ScanStep(st, line) ==
    IF st.done THEN st
    ELSE IF TrimSpace(line) = Dash3
    THEN IF ~st.inFrontmatter
         THEN [st EXCEPT !.lineCount = @ + 1, !.inFrontmatter = TRUE]
         ELSE [st EXCEPT !.lineCount = @ + 1, !.done = TRUE]
    ELSE IF st.lineCount + 1 > LineLimit
    THEN [st EXCEPT !.lineCount = @ + 1, !.done = TRUE, !.err = "too long",
                    !.frontmatterLines = <<>>]
    ELSE [st EXCEPT !.lineCount = @ + 1,
                    !.frontmatterLines = IF st.inFrontmatter THEN Append(@, line) ELSE @]

\* part_003:66-88  the loop's turns on lines lo..hi, in order (taken by
\* halves, which keeps the evaluation shallow on long files)
RECURSIVE ScanLoop(_, _, _, _)
ScanLoop(lines, st, lo, hi) ==
    IF lo > hi THEN st
    ELSE IF lo = hi THEN ScanStep(st, lines[lo])
    ELSE LET mid == (lo + hi) \div 2
             first == ScanLoop(lines, st, lo, mid)
         IN  IF first.done THEN first
             ELSE ScanLoop(lines, first, mid + 1, hi)

\* Parser.ParseMetadataOnly, part_003:54-112, on a file that opens and reads
ParseMetadataOnly(lines) ==
    LET sc == ScanLoop(lines, ScanInit, 1, Len(lines))
        um == Unmarshal(sc.frontmatterLines, NoFm, {})
    IN  IF sc.err # "none" THEN ParseResult(sc.err, NoFm, <<>>, NotValidated)
        ELSE IF sc.frontmatterLines = <<>>
        THEN ParseResult("ErrInvalidFrontmatter", NoFm, <<>>, NotValidated)
        ELSE IF um.err # "none" THEN ParseResult(um.err, NoFm, <<>>, NotValidated)
        ELSE ParseResult(Validate(um.fm), um.fm, <<>>, [reached |-> TRUE, fm |-> um.fm])

(***************************************************************************)
(* The filesystem as the loader sees it.  A root is absent, unreadable or  *)
(* a directory; a directory holds, per candidate name, nothing that is a   *)
(* directory, a directory without SKILL.md, or one whose SKILL.md is       *)
(*   "invalid"   rejected by Parse and by ParseMetadataOnly,               *)
(*   "valid"     accepted by both,                                         *)
(*   "metaonly"  accepted by ParseMetadataOnly and rejected by Parse (a    *)
(*               document with text before its first `---` line:           *)
(*               part_003:117 against part_003:66-78).                     *)
(***************************************************************************)
\* candidate directory names, as os.ReadDir returns them: sorted by name
DirOrder == <<"a", "b">>
DirNames == { DirOrder[i] : i \in 1..Len(DirOrder) }

\* header names and descriptions that pass Frontmatter.Validate
SkillNames == {"a", "b"}
Descs == {"d1", "d2"}

Docs ==
    { [kind |-> "nodir"], [kind |-> "missing"], [kind |-> "invalid"] }
    \cup { [kind |-> "valid", name |-> n, desc |-> d] : n \in SkillNames, d \in Descs }
    \cup { [kind |-> "metaonly", name |-> n, desc |-> "d1"] : n \in SkillNames }

EmptyDirs == [d \in DirNames |-> [kind |-> "nodir"]]

Roots ==
    { [state |-> "absent", dirs |-> EmptyDirs], [state |-> "ioerr", dirs |-> EmptyDirs] }
    \cup { [state |-> "ok", dirs |-> ds] : ds \in [DirNames -> Docs] }

AllFs == [global : Roots, project : Roots]

\* SourceGlobal, SourceProject (part_002:258, 261)
SourceGlobal == "global"
SourceProject == "project"

RootOf(fs, source) == IF source = SourceGlobal THEN fs.global ELSE fs.project

\* filepath.Join(dir, entry.Name())
SkillPath(source, dir) == [root |-> source, dir |-> dir]

\* whether Parser.ParseMetadataOnly / Parser.ParseFile accept the document
MetaParses(doc) == doc.kind \in {"valid", "metaonly"}
FullParses(doc) == doc.kind = "valid"

\* os.ReadDir(dir): nil, or the error
ReadDirErr(root) ==
    CASE root.state = "absent" -> "notexist"
      [] root.state = "ioerr" -> "io"
      [] OTHER -> "none"

\* m[k] = v on a Go map
MapPut(m, k, v) == [x \in DOMAIN m \cup {k} |-> IF x = k THEN v ELSE m[x]]

EmptyMap == [x \in {} |-> x]

\* every ordering of a map's values: Go's map iteration order is unspecified
MapOrders(m) ==
    { [i \in 1..Cardinality(DOMAIN m) |-> m[f[i]]] :
        f \in { g \in [1..Cardinality(DOMAIN m) -> DOMAIN m] :
                  \A i, j \in 1..Cardinality(DOMAIN m) : i # j => g[i] # g[j] } }

(***************************************************************************)
(* Loader.loadMetadataFromDir (loader.go:183-217): the entries in order;   *)
(* returns the error and the map as the call leaves it.                    *)
(***************************************************************************)
\* A plausible slip: the map keyed by the skill's directory.
MetaKeyByPath(doc, source, dir) == SkillPath(source, dir)

\* loader.go:208  the key of metadata[fm.Name]
MetaKey(doc, source, dir) == doc.name

\* loader.go:208-213  metadata[fm.Name] = SkillMetadata{...}
MetaPut(m, doc, source, dir) ==
    MapPut(m, MetaKey(doc, source, dir),
           [name |-> doc.name, desc |-> doc.desc, source |-> source,
            path |-> SkillPath(source, dir)])

RECURSIVE MetaEntries(_, _, _, _, _)
MetaEntries(root, source, dirs, m, cancelled) ==
    IF dirs = <<>> THEN [err |-> "none", map |-> m]
    ELSE LET doc == root.dirs[Head(dirs)]
         IN  IF doc.kind = "nodir"
             THEN MetaEntries(root, source, Tail(dirs), m, cancelled)
             ELSE IF cancelled
             THEN [err |-> "ctx", map |-> m]
             ELSE IF ~MetaParses(doc)
             THEN MetaEntries(root, source, Tail(dirs), m, cancelled)
             ELSE MetaEntries(root, source, Tail(dirs),
                              MetaPut(m, doc, source, Head(dirs)), cancelled)

loadMetadataFromDir(fs, source, m, cancelled) ==
    IF ReadDirErr(RootOf(fs, source)) # "none"
    THEN [err |-> ReadDirErr(RootOf(fs, source)), map |-> m]
    ELSE MetaEntries(RootOf(fs, source), source, DirOrder, m, cancelled)

(***************************************************************************)
(* Loader.LoadMetadataOnly (loader.go:88-111): the outcomes the call can   *)
(* have, one per iteration order of the map.                               *)
(***************************************************************************)
\* A plausible slip: the roots processed in the other order.
MetaRootOrderSwapped == <<SourceProject, SourceGlobal>>

\* loader.go:92, 99: the global root, then the project root
MetaRootOrder == <<SourceGlobal, SourceProject>>

\* A plausible slip: a root that does not exist treated like any other
\* failure to read it.
IsNotExistNever(e) == FALSE

\* os.IsNotExist(err) (loader.go:61, 70, 93, 100)
IsNotExist(e) == e = "notexist"

\* return nil, err: no result, and the warnings already written to stderr
Failure(e, warned) == [err |-> e, list |-> <<>>, warned |-> warned]

LoadMetadataOnly(fs, cancelled) ==
    LET g == loadMetadataFromDir(fs, MetaRootOrder[1], EmptyMap, cancelled)
        p == loadMetadataFromDir(fs, MetaRootOrder[2], g.map, cancelled)
    IN  IF g.err # "none" /\ ~IsNotExist(g.err) THEN { Failure(g.err, {}) }
        ELSE IF p.err # "none" /\ ~IsNotExist(p.err) THEN { Failure(p.err, {}) }
        ELSE { [err |-> "none", list |-> l, warned |-> {}] : l \in MapOrders(p.map) }

(***************************************************************************)
(* Loader.loadSingleSkill (loader.go:220-251), Loader.loadFromDir          *)
(* (150-180) and Loader.LoadAll (56-84).  The bundled files of a skill     *)
(* play no part in the properties checked and are left out of the Skill.   *)
(***************************************************************************)
loadSingleSkill(fs, source, dir) ==
    LET root == RootOf(fs, source)
        doc == IF root.state = "ok" /\ dir \in DirNames THEN root.dirs[dir]
               ELSE [kind |-> "nodir"]
    IN  IF doc.kind \in {"nodir", "missing"} THEN [err |-> "missingskillmd"]
        ELSE IF ~FullParses(doc) THEN [err |-> "parse"]
        ELSE [err |-> "none",
              skill |-> [name |-> doc.name, desc |-> doc.desc, source |-> source,
                         path |-> SkillPath(source, dir)]]

\* warned: the candidates named in a "Warning: failed to load skill" line
\* (loader.go:172)
RECURSIVE FromDirEntries(_, _, _, _, _, _)
FromDirEntries(fs, source, dirs, loaded, warned, cancelled) ==
    IF dirs = <<>> THEN [err |-> "none", skills |-> loaded, warned |-> warned]
    ELSE IF RootOf(fs, source).dirs[Head(dirs)].kind = "nodir"
    THEN FromDirEntries(fs, source, Tail(dirs), loaded, warned, cancelled)
    ELSE IF cancelled
    THEN [err |-> "ctx", skills |-> <<>>, warned |-> warned]
    ELSE LET r == loadSingleSkill(fs, source, Head(dirs))
         IN  IF r.err # "none"
             THEN FromDirEntries(fs, source, Tail(dirs), loaded,
                                 warned \cup {SkillPath(source, Head(dirs))}, cancelled)
             ELSE FromDirEntries(fs, source, Tail(dirs), Append(loaded, r.skill),
                                 warned, cancelled)

loadFromDir(fs, source, cancelled) ==
    IF ReadDirErr(RootOf(fs, source)) # "none"
    THEN [err |-> ReadDirErr(RootOf(fs, source)), skills |-> <<>>, warned |-> {}]
    ELSE FromDirEntries(fs, source, DirOrder, <<>>, {}, cancelled)

\* for _, s := range loaded { m[s.Name] = s }
RECURSIVE PutAll(_, _)
PutAll(m, loaded) ==
    IF loaded = <<>> THEN m
    ELSE PutAll(MapPut(m, Head(loaded).name, Head(loaded)), Tail(loaded))

LoadAll(fs, cancelled) ==
    LET g == loadFromDir(fs, SourceGlobal, cancelled)
        p == loadFromDir(fs, SourceProject, cancelled)
    IN  IF g.err # "none" /\ ~IsNotExist(g.err) THEN { Failure(g.err, g.warned) }
        ELSE IF p.err # "none" /\ ~IsNotExist(p.err)
        THEN { Failure(p.err, g.warned \cup p.warned) }
        ELSE { [err |-> "none", list |-> l, warned |-> g.warned \cup p.warned] :
                 l \in MapOrders(PutAll(PutAll(EmptyMap, g.skills), p.skills)) }

(***************************************************************************)
(* Loader.LoadSkill (loader.go:114-131): the project root, then the        *)
(* global root; the directory looked up is the requested name.  The error  *)
(* of either attempt is dropped; the error returned carries the name.      *)
(***************************************************************************)
\* A plausible slip: the global root tried first.
SkillRootOrderGlobalFirst == <<SourceGlobal, SourceProject>>

\* loader.go:116-117, 122-123: the project root, then the global root
SkillRootOrder == <<SourceProject, SourceGlobal>>

LoadSkill(f, name) ==
    LET pr == loadSingleSkill(f, SkillRootOrder[1], name)
        gl == loadSingleSkill(f, SkillRootOrder[2], name)
    IN  IF pr.err = "none" THEN pr
        ELSE IF gl.err = "none" THEN gl
        ELSE [err |-> "notfound", path |-> name]

(***************************************************************************)
(* Loader harness.                                                         *)
(***************************************************************************)
InitLoader ==
    /\ lFs \in AllFs
    /\ lCancelled \in BOOLEAN
    /\ lMeta = NoResult
    /\ lAll = NoResult
    /\ lName \in DirNames
    /\ lSkill = NoResult

CallLoadMetadataOnly ==
    /\ lMeta = NoResult
    /\ lMeta' \in LoadMetadataOnly(lFs, lCancelled)
    /\ UNCHANGED <<lFs, lCancelled, lAll, lName, lSkill, notLoader>>

CallLoadAll ==
    /\ lAll = NoResult
    /\ lAll' \in LoadAll(lFs, lCancelled)
    /\ UNCHANGED <<lFs, lCancelled, lMeta, lName, lSkill, notLoader>>

CallLoadSkill ==
    /\ lSkill = NoResult
    /\ lSkill' = LoadSkill(lFs, lName)
    /\ UNCHANGED <<lFs, lCancelled, lMeta, lAll, lName, notLoader>>

NextLoader ==
    \/ CallLoadMetadataOnly
    \/ CallLoadAll
    \/ CallLoadSkill

(***************************************************************************)
(* The Registry (part_001:11-254) under concurrent callers.                *)
(*                                                                         *)
(* Steps are cut where another goroutine can observe or change the         *)
(* registry's fields: at every acquisition of r.mu, between the two        *)
(* assignments of Initialize, and between the reads a call makes of        *)
(* r.metadata.  A Get or a scan that has finished leaves in loc what it    *)
(* found; the other calls leave nothing.                                   *)
(***************************************************************************)
Procs == {"p1", "p2"}

OkRoot(da, db) == [state |-> "ok", dirs |-> [d \in DirNames |-> IF d = "a" THEN da ELSE db]]
Valid(n, d) == [kind |-> "valid", name |-> n, desc |-> d]
AbsentRoot == [state |-> "absent", dirs |-> EmptyDirs]

\* The filesystem contents the registry runs over: no skills at all; one
\* root with two directories declaring the same name; the same name in both
\* roots beside a second skill.
RegFs ==
    { [global |-> AbsentRoot, project |-> AbsentRoot],
      [global |-> OkRoot(Valid("a", "d1"), Valid("a", "d2")), project |-> AbsentRoot],
      [global |-> OkRoot(Valid("a", "d1"), Valid("b", "d1")),
       project |-> OkRoot(Valid("a", "d2"), [kind |-> "nodir"])] }

NoSkill == [id |-> 0]

\* r.watcher == nil (part_001:16, 48, 64, 91)
NilWatcher == 0

\* the watchers whose event loop is running
Running == { w \in DOMAIN loops : loops[w] }

\* loc of a caller that has made no call
NoCall ==
    [op |-> "none", name |-> "", skill |-> NoSkill, hit |-> FALSE,
     n |-> 0, gen |-> 0, whole |-> TRUE,   \* n: a scan's length read, a Get's load number
     follow |-> FALSE, same |-> TRUE, sameAsLast |-> TRUE]

NoInsert == [n \in SkillNames |-> <<>>]

\* A plausible slip: readers that do not wait for the writer.
CanRLockUnguarded(m) == TRUE

\* r.mu.RLock() can return (part_001:103, 136, 144, 194, 239, 246)
CanRLock(m) == m.writer = "none"

\* r.mu.Lock() can return (part_001:75, 117)
CanLock(m) == m.writer = "none" /\ m.readers = {}

\* A plausible slip: an entry already present is kept.
CacheInsertIfAbsent(cache, name, skill) ==
    IF name \in DOMAIN cache THEN cache ELSE MapPut(cache, name, skill)

\* part_001:118  r.skills[name] = skill
CacheInsert(cache, name, skill) == MapPut(cache, name, skill)

InitRegistry ==
    /\ disk \in RegFs
    /\ metadata = <<>>
    /\ skills = EmptyMap
    /\ mu = [writer |-> "none", readers |-> {}]
    /\ autoWatch \in BOOLEAN
    /\ rwatcher = NilWatcher
    /\ loops = <<>>
    /\ pc = [p \in Procs |-> "idle"]
    /\ loc = [p \in Procs |-> NoCall]
    /\ loads = 0
    /\ inits = 0
    /\ metaGen = 0
    /\ cacheGen = 0
    /\ readTorn = FALSE
    /\ inserted = NoInsert
    /\ stopped = FALSE

\* The environment rewrites the skill directories.
FsChange ==
    /\ disk' \in RegFs \ {disk}
    /\ UNCHANGED <<metadata, skills, mu, autoWatch, rwatcher, loops, pc, loc,
                   loads, inits, metaGen, cacheGen, readTorn, inserted, notRegistry>>

\* Initialize / Reload, part_001:75: r.mu.Lock() returns.
InitializeLock(p) ==
    /\ pc[p] = "idle"
    /\ inits < MaxReloads
    /\ CanLock(mu)
    /\ loc' = [loc EXCEPT ![p] = [NoCall EXCEPT !.op = "Initialize", !.gen = metaGen]]
    /\ mu' = [mu EXCEPT !.writer = p]
    /\ pc' = [pc EXCEPT ![p] = "init_load"]
    /\ inits' = inits + 1
    /\ UNCHANGED <<disk, metadata, skills, autoWatch, rwatcher, loops,
                   loads, metaGen, cacheGen, readTorn, inserted, notRegistry>>

\* A plausible slip: the loader's result is assigned before the error test.
MetadataOnFailureAssigned(old, out) == out.list

\* part_001:78-83: r.metadata is assigned only past the error test
MetadataOnFailure(old, out) == old

\* part_001:78-82: discovery fails (a root that cannot be listed, or the
\* caller's context cancelled); unlock and return the error.  The caller
\* keeps in loc that its Initialize failed.
InitializeFail(p) ==
    /\ pc[p] = "init_load"
    /\ \E c \in BOOLEAN : \E out \in LoadMetadataOnly(disk, c) :
          /\ out.err # "none"
          /\ metadata' = MetadataOnFailure(metadata, out)
    /\ mu' = [mu EXCEPT !.writer = "none"]
    /\ pc' = [pc EXCEPT ![p] = "idle"]
    /\ UNCHANGED <<disk, skills, autoWatch, rwatcher, loops, loc,
                   loads, inits, metaGen, cacheGen, readTorn, inserted, notRegistry>>

\* part_001:78-83: discovery succeeds, r.metadata = metadata.  Discovery
\* touches no field of the registry, so it is one step with the assignment.
InitializeSetMetadata(p) ==
    /\ pc[p] = "init_load"
    /\ \E out \in LoadMetadataOnly(disk, FALSE) :
          /\ out.err = "none"
          /\ metadata' = out.list
    /\ metaGen' = metaGen + 1
    /\ pc' = [pc EXCEPT ![p] = "init_clear"]
    /\ UNCHANGED <<disk, skills, mu, autoWatch, rwatcher, loops, loc,
                   loads, inits, cacheGen, readTorn, inserted, notRegistry>>

\* part_001:86-88: r.skills = make(map), r.mu.Unlock().
InitializeClearCache(p) ==
    /\ pc[p] = "init_clear"
    /\ skills' = EmptyMap
    /\ cacheGen' = cacheGen + 1
    /\ inserted' = NoInsert
    /\ mu' = [mu EXCEPT !.writer = "none"]
    /\ pc' = [pc EXCEPT ![p] = IF autoWatch THEN "init_watch" ELSE "idle"]
    /\ loc' = [loc EXCEPT ![p] = NoCall]
    /\ UNCHANGED <<disk, metadata, autoWatch, rwatcher, loops,
                   loads, inits, metaGen, readTorn, notRegistry>>

\* part_001:91 with StartWatching's own test, part_001:48: r.watcher is
\* read without the lock.  A watcher already set ends the call (the error
\* of StartWatching is only logged).
InitializeAutoWatch(p) ==
    /\ pc[p] = "init_watch"
    /\ pc' = [pc EXCEPT ![p] = IF rwatcher = NilWatcher THEN "sw_assign" ELSE "idle"]
    /\ UNCHANGED <<disk, metadata, skills, mu, autoWatch, rwatcher, loops, loc,
                   loads, inits, metaGen, cacheGen, readTorn, inserted, notRegistry>>

\* part_001:52-59: NewWatcher, r.watcher = watcher, watcher.Start(ctx),
\* which launches the new watcher's event loop (part_000:298).
StartWatchingAssign(p) ==
    /\ pc[p] = "sw_assign"
    /\ rwatcher' = Len(loops) + 1
    /\ loops' = Append(loops, TRUE)
    /\ pc' = [pc EXCEPT ![p] = "idle"]
    /\ loc' = [loc EXCEPT ![p] = NoCall]
    /\ UNCHANGED <<disk, metadata, skills, mu, autoWatch,
                   loads, inits, metaGen, cacheGen, readTorn, inserted, notRegistry>>

\* part_001:53-56: NewWatcher fails (no notification source to be had) and
\* StartWatching returns the error, which Initialize only logs.
StartWatchingFail(p) ==
    /\ pc[p] = "sw_assign"
    /\ pc' = [pc EXCEPT ![p] = "idle"]
    /\ loc' = [loc EXCEPT ![p] = NoCall]
    /\ UNCHANGED <<disk, metadata, skills, mu, autoWatch, rwatcher, loops,
                   loads, inits, metaGen, cacheGen, readTorn, inserted, notRegistry>>

\* StartWatching, part_001:48-50: r.watcher is read without the lock; a
\* watcher already set ends the call with "watcher already started".
StartWatchingCheck(p) ==
    /\ pc[p] = "idle"
    /\ Len(loops) + Cardinality({ q \in Procs : pc[q] = "sw_assign" }) < MaxWatchers
    /\ pc' = [pc EXCEPT ![p] = IF rwatcher = NilWatcher THEN "sw_assign" ELSE "idle"]
    /\ loc' = [loc EXCEPT ![p] = NoCall]
    /\ stopped' = FALSE
    /\ UNCHANGED <<disk, metadata, skills, mu, autoWatch, rwatcher, loops,
                   loads, inits, metaGen, cacheGen, readTorn, inserted, notRegWatch>>

\* StopWatching, part_001:64-66: r.watcher is read without the lock; with
\* none set the call returns nil.
StopWatchingCheck(p) ==
    /\ pc[p] = "idle"
    /\ pc' = [pc EXCEPT ![p] = IF rwatcher = NilWatcher THEN "idle" ELSE "sw_stop"]
    /\ loc' = [loc EXCEPT ![p] = NoCall]
    /\ UNCHANGED <<disk, metadata, skills, mu, autoWatch, rwatcher, loops,
                   loads, inits, metaGen, cacheGen, readTorn, inserted, notRegistry>>

\* part_001:68: r.watcher.Stop() on the watcher r.watcher holds now, which
\* returns when that watcher's event loop has ended (part_000:405-418).
\* With r.watcher nil by now the call dereferences nil and panics.
StopWatchingStop(p) ==
    /\ pc[p] = "sw_stop"
    /\ IF rwatcher = NilWatcher
       THEN /\ pc' = [pc EXCEPT ![p] = "panic"]
            /\ loops' = loops
       ELSE /\ pc' = [pc EXCEPT ![p] = "sw_clear"]
            /\ loops' = [loops EXCEPT ![rwatcher] = FALSE]
    /\ UNCHANGED <<disk, metadata, skills, mu, autoWatch, rwatcher, loc,
                   loads, inits, metaGen, cacheGen, readTorn, inserted, notRegistry>>

\* Some StartWatching stands between the test of part_001:48 and the
\* assignment of part_001:57.
StartInFlight == \E q \in Procs : pc[q] = "sw_assign"

\* part_001:69-70: r.watcher = nil, return.
StopWatchingClear(p) ==
    /\ pc[p] = "sw_clear"
    /\ rwatcher' = NilWatcher
    /\ pc' = [pc EXCEPT ![p] = "idle"]
    /\ loc' = [loc EXCEPT ![p] = NoCall]
    /\ stopped' = (Running = {} /\ ~StartInFlight)
    /\ UNCHANGED <<disk, metadata, skills, mu, autoWatch, loops,
                   loads, inits, metaGen, cacheGen, readTorn, inserted, notRegWatch>>

Last(seq) == seq[Len(seq)]

\* What a Get under this name finds of the insertions it follows: whether
\* there is one since the last reset, whether the instance it returns is
\* the one every such insertion stored, and whether it is the one the
\* latest such insertion stored.
GetCall(name, hit, id) ==
    [NoCall EXCEPT
       !.op = "Get", !.hit = hit,
       !.follow = (inserted[name] # <<>>),
       !.same = (\A i \in DOMAIN inserted[name] : hit /\ inserted[name][i] = id),
       !.sameAsLast = (inserted[name] # <<>> => hit /\ Last(inserted[name]) = id)]

\* Get, part_001:103-108: the cache holds the name; return the cached Skill.
GetHit(p) ==
    /\ pc[p] = "idle"
    /\ CanRLock(mu)
    /\ \E name \in SkillNames :
          /\ name \in DOMAIN skills
          /\ loc' = [loc EXCEPT ![p] = GetCall(name, TRUE, skills[name].id)]
    /\ readTorn' = (readTorn \/ metaGen # cacheGen)
    /\ UNCHANGED <<disk, metadata, skills, mu, autoWatch, rwatcher, loops, pc,
                   loads, inits, metaGen, cacheGen, inserted, notRegistry>>

\* Get, part_001:103-111: the cache does not hold the name; go on to load.
GetMiss(p) ==
    /\ pc[p] = "idle"
    /\ loads < MaxLoads
    /\ CanRLock(mu)
    /\ \E name \in SkillNames :
          /\ name \notin DOMAIN skills
          /\ loc' = [loc EXCEPT ![p] = [GetCall(name, FALSE, 0) EXCEPT
                                          !.name = name, !.n = loads + 1]]
    /\ loads' = loads + 1
    /\ readTorn' = (readTorn \/ metaGen # cacheGen)
    /\ pc' = [pc EXCEPT ![p] = "get_load"]
    /\ UNCHANGED <<disk, metadata, skills, mu, autoWatch, rwatcher, loops,
                   inits, metaGen, cacheGen, inserted, notRegistry>>

\* part_001:112-115: the loader fails; nothing is inserted.
GetLoadFail(p) ==
    /\ pc[p] = "get_load"
    /\ LoadSkill(disk, loc[p].name).err # "none"
    /\ loc' = [loc EXCEPT ![p] = NoCall]
    /\ pc' = [pc EXCEPT ![p] = "idle"]
    /\ UNCHANGED <<disk, metadata, skills, mu, autoWatch, rwatcher, loops,
                   loads, inits, metaGen, cacheGen, readTorn, inserted, notRegistry>>

\* part_001:112: the loader returns a new Skill, outside any lock.  The
\* instance carries the number of the load that made it and, as history,
\* the number of cache resets before it was read from disk.
GetLoad(p) ==
    /\ pc[p] = "get_load"
    /\ LoadSkill(disk, loc[p].name).err = "none"
    /\ loc' = [loc EXCEPT ![p].skill =
                 LoadSkill(disk, loc[p].name).skill @@ [id |-> loc[p].n, gen |-> cacheGen]]
    /\ pc' = [pc EXCEPT ![p] = "get_insert"]
    /\ UNCHANGED <<disk, metadata, skills, mu, autoWatch, rwatcher, loops,
                   loads, inits, metaGen, cacheGen, readTorn, inserted, notRegistry>>

\* part_001:117-121: Lock, r.skills[name] = skill, Unlock, return skill.
GetInsert(p) ==
    /\ pc[p] = "get_insert"
    /\ CanLock(mu)
    /\ skills' = CacheInsert(skills, loc[p].name, loc[p].skill)
    /\ inserted' = [inserted EXCEPT ![loc[p].name] = Append(@, loc[p].skill.id)]
    /\ loc' = [loc EXCEPT ![p] = NoCall]
    /\ pc' = [pc EXCEPT ![p] = "idle"]
    /\ UNCHANGED <<disk, metadata, mu, autoWatch, rwatcher, loops,
                   loads, inits, metaGen, cacheGen, readTorn, notRegistry>>

\* GetMetadata (part_001:135-139), Count (238-242): RLock, one read of
\* r.metadata, RUnlock.
ReadOnce(p) ==
    /\ pc[p] = "idle"
    /\ CanRLock(mu)
    /\ loc' = [loc EXCEPT ![p] = NoCall]
    /\ readTorn' = (readTorn \/ metaGen # cacheGen)
    /\ UNCHANGED <<disk, metadata, skills, mu, autoWatch, rwatcher, loops, pc,
                   loads, inits, metaGen, cacheGen, inserted, notRegistry>>

\* Names (part_001:246-249), GenerateSystemPromptSection (194-197),
\* FindMatchingSkill (144-151): RLock, and the first read of r.metadata
\* (its length).
ScanBegin(p) ==
    /\ pc[p] = "idle"
    /\ CanRLock(mu)
    /\ loc' = [loc EXCEPT ![p] =
                 [NoCall EXCEPT !.op = "scan", !.n = Len(metadata), !.gen = metaGen]]
    /\ mu' = [mu EXCEPT !.readers = @ \cup {p}]
    /\ readTorn' = (readTorn \/ metaGen # cacheGen)
    /\ pc' = [pc EXCEPT ![p] = "scan"]
    /\ UNCHANGED <<disk, metadata, skills, autoWatch, rwatcher, loops,
                   loads, inits, metaGen, cacheGen, inserted, notRegistry>>

\* part_001:250-253, 204-214, 152-165: the second read of r.metadata (its
\* entries), the deferred RUnlock.  The call keeps whether the entries are
\* those of the list whose length it read.
ScanEnd(p) ==
    /\ pc[p] = "scan"
    /\ loc' = [loc EXCEPT ![p] =
                 [NoCall EXCEPT !.op = "scan",
                                !.whole = (loc[p].gen = metaGen /\ loc[p].n = Len(metadata))]]
    /\ mu' = [mu EXCEPT !.readers = @ \ {p}]
    /\ readTorn' = (readTorn \/ metaGen # cacheGen)
    /\ pc' = [pc EXCEPT ![p] = "idle"]
    /\ UNCHANGED <<disk, metadata, skills, autoWatch, rwatcher, loops,
                   loads, inits, metaGen, cacheGen, inserted, notRegistry>>

\* The registry made without WithAutoWatch, under callers of Initialize,
\* Reload, Get and the readers: Initialize ends at part_001:91 with
\* r.autoWatch false.
NextRegistry ==
    \/ FsChange
    \/ \E p \in Procs :
          \/ InitializeLock(p)
          \/ InitializeFail(p)
          \/ InitializeSetMetadata(p)
          \/ InitializeClearCache(p)
          \/ GetHit(p)
          \/ GetMiss(p)
          \/ GetLoadFail(p)
          \/ GetLoad(p)
          \/ GetInsert(p)
          \/ ReadOnce(p)
          \/ ScanBegin(p)
          \/ ScanEnd(p)

\* The registry made without WithAutoWatch, under callers of Initialize,
\* Reload and Get.
NextCache ==
    \/ FsChange
    \/ \E p \in Procs :
          \/ InitializeLock(p)
          \/ InitializeFail(p)
          \/ InitializeSetMetadata(p)
          \/ InitializeClearCache(p)
          \/ GetHit(p)
          \/ GetMiss(p)
          \/ GetLoadFail(p)
          \/ GetLoad(p)
          \/ GetInsert(p)

\* The registry, with auto-watch on or off, under callers of Initialize,
\* Reload, StartWatching and StopWatching.
NextRegWatch ==
    \/ FsChange
    \/ \E p \in Procs :
          \/ InitializeLock(p)
          \/ InitializeFail(p)
          \/ InitializeSetMetadata(p)
          \/ InitializeClearCache(p)
          \/ InitializeAutoWatch(p)
          \/ StartWatchingCheck(p)
          \/ StartWatchingAssign(p)
          \/ StartWatchingFail(p)
          \/ StopWatchingCheck(p)
          \/ StopWatchingStop(p)
          \/ StopWatchingClear(p)

(***************************************************************************)
(* The Watcher (part_000:233-418): one Start..Stop lifetime of the event   *)
(* loop, the callers of Stop, the context, the notification source and a   *)
(* clock.                                                                  *)
(*                                                                         *)
(* Time.  A step of the loop other than Registry.Reload takes no time, and *)
(* a loop blocked in select with a case ready runs before the clock moves: *)
(* the clock ticks only when no such step is due (Urgent).  The runtime    *)
(* fires a timer at its deadline.  Reload takes any time, and so does a    *)
(* caller of Stop between its steps.  What the select takes when several   *)
(* cases are ready is left open, as Go leaves it.                          *)
(***************************************************************************)
Stoppers == {"s1", "s2"}

\* events by what the loop does with them: a Write or Create of a file
\* named SKILL.md ("skill"), a Remove, Rename or Chmod of one ("skillop"),
\* the Create of a directory ("newdir"), any other ("other")
EventKinds == {"skill", "skillop", "newdir", "other"}

\* callers of Start
Starters == {"t1", "t2"}

NoTimer == [set |-> FALSE, active |-> FALSE, deadline |-> 0, c |-> FALSE]

\* A plausible slip: an armed timer keeps its deadline.
RearmKeepsDeadline(t, d) == [t EXCEPT !.c = FALSE]

\* A plausible slip: the armed timer is stopped and drained, not reset.
RearmStopsOnly(t, d) == [t EXCEPT !.active = FALSE, !.c = FALSE]

\* part_000:355-362  Stop, drain of timer.C, Reset(w.debounce)
Rearm(t, d) == [set |-> TRUE, active |-> TRUE, deadline |-> d, c |-> FALSE]

\* part_000:351-353  time.NewTimer(w.debounce), timerCh = timer.C
NewTimer(d) == [set |-> TRUE, active |-> TRUE, deadline |-> d, c |-> FALSE]

InitWatcher ==
    /\ now = 0
    /\ running = FALSE
    /\ stopCh = "open"
    /\ doneCh = "open"
    /\ ctxDone = FALSE
    /\ fsw = "open"
    /\ events = <<>>
    /\ errPending = FALSE
    /\ loopPc = "off"
    /\ timer = NoTimer
    /\ pending = FALSE
    /\ sPc = [c \in Stoppers |-> "idle"]
    /\ lastRecv = -1
    /\ reloadsSince = 0
    /\ reloadGap = -1
    /\ prevGap = -1
    /\ prevReloads = 0
    /\ stPc = [t \in Starters |-> "idle"]
    /\ launched = 0
    /\ rootExists \in BOOLEAN
    /\ newDir = "none"
    /\ lastReload = "none"

\* a timer is due, or the loop stands at its select with a case ready
Urgent ==
    \/ timer.active /\ timer.deadline <= now
    \/ /\ loopPc = "select"
       /\ \/ ctxDone
          \/ stopCh = "closed"
          \/ events # <<>>
          \/ errPending
          \/ timer.set /\ timer.c

Tick ==
    /\ now < MaxTime
    /\ ~Urgent
    /\ now' = now + 1
    /\ UNCHANGED <<running, stopCh, doneCh, ctxDone, fsw, events, errPending, loopPc,
                   timer, pending, sPc, lastRecv, reloadsSince, reloadGap, prevGap,
                   prevReloads, stPc, launched, rootExists,
                   newDir, lastReload, notWatcher>>

\* The runtime fires the timer: a value on timer.C.
TimerFire ==
    /\ timer.active
    /\ timer.deadline <= now
    /\ timer' = [timer EXCEPT !.active = FALSE, !.c = TRUE]
    /\ UNCHANGED <<now, running, stopCh, doneCh, ctxDone, fsw, events, errPending,
                   loopPc, pending, sPc, lastRecv, reloadsSince, reloadGap, prevGap,
                   prevReloads, stPc, launched, rootExists,
                   newDir, lastReload, notWatcher>>

\* The notification source reports a change in a directory Start has
\* added; it reports none once closed.  The Create of a directory is
\* CreateDir's.
EventArrive ==
    /\ loopPc # "off"
    /\ rootExists
    /\ fsw = "open"
    /\ Len(events) < MaxQueue
    /\ \E k \in EventKinds \ {"newdir"} : events' = Append(events, k)
    /\ UNCHANGED <<now, running, stopCh, doneCh, ctxDone, fsw, errPending, loopPc,
                   timer, pending, sPc, lastRecv, reloadsSince, reloadGap, prevGap,
                   prevReloads, stPc, launched, rootExists, newDir, lastReload,
                   notWatcher>>

\* A directory is made under the root while the loop runs: the source
\* reports its Create.  It is not watched until the loop adds it.
CreateDir ==
    /\ loopPc \in {"select", "reload"}
    /\ rootExists
    /\ fsw = "open"
    /\ newDir = "none"
    /\ Len(events) < MaxQueue
    /\ newDir' = "created"
    /\ events' = Append(events, "newdir")
    /\ UNCHANGED <<now, running, stopCh, doneCh, ctxDone, fsw, errPending, loopPc,
                   timer, pending, sPc, lastRecv, reloadsSince, reloadGap, prevGap,
                   prevReloads, stPc, launched, rootExists, lastReload, notWatcher>>

\* A SKILL.md is written in that directory before the loop has added it:
\* the source watches directories one by one (part_000:310) and reports
\* nothing.
WriteUnwatched ==
    /\ newDir = "created"
    /\ newDir' = "missed"
    /\ UNCHANGED <<now, running, stopCh, doneCh, ctxDone, fsw, events, errPending,
                   loopPc, timer, pending, sPc, lastRecv, reloadsSince, reloadGap,
                   prevGap, prevReloads, stPc, launched, rootExists, lastReload,
                   notWatcher>>

\* A SKILL.md is written in that directory after the loop has added it.
WriteWatched ==
    /\ newDir = "registered"
    /\ fsw = "open"
    /\ Len(events) < MaxQueue
    /\ newDir' = "notified"
    /\ events' = Append(events, "skill")
    /\ UNCHANGED <<now, running, stopCh, doneCh, ctxDone, fsw, errPending, loopPc,
                   timer, pending, sPc, lastRecv, reloadsSince, reloadGap, prevGap,
                   prevReloads, stPc, launched, rootExists, lastReload, notWatcher>>

ErrorArrive ==
    /\ loopPc # "off"
    /\ fsw = "open"
    /\ ~errPending
    /\ errPending' = TRUE
    /\ UNCHANGED <<now, running, stopCh, doneCh, ctxDone, fsw, events, loopPc,
                   timer, pending, sPc, lastRecv, reloadsSince, reloadGap, prevGap,
                   prevReloads, stPc, launched, rootExists,
                   newDir, lastReload, notWatcher>>

\* The owner of the context cancels it.
CtxCancel ==
    /\ ~ctxDone
    /\ ctxDone' = TRUE
    /\ UNCHANGED <<now, running, stopCh, doneCh, fsw, events, errPending, loopPc,
                   timer, pending, sPc, lastRecv, reloadsSince, reloadGap, prevGap,
                   prevReloads, stPc, launched, rootExists,
                   newDir, lastReload, notWatcher>>

\* A plausible slip: Start does not look at w.running.
RunningSeenNever(r) == FALSE

\* part_000:282  if w.running
RunningSeen(r) == r

\* Watcher.Start, part_000:281-285: w.running is set; "watcher already
\* running".
StartReject(t) ==
    /\ stPc[t] = "idle"
    /\ RunningSeen(running)
    /\ stPc' = [stPc EXCEPT ![t] = "failed"]
    /\ UNCHANGED <<now, running, stopCh, doneCh, ctxDone, fsw, events, errPending,
                   loopPc, timer, pending, sPc, lastRecv, reloadsSince, reloadGap,
                   prevGap, prevReloads, launched, rootExists, newDir, lastReload,
                   notWatcher>>

\* part_000:281-287: not running; w.running = true, unlock.
StartClaim(t) ==
    /\ stPc[t] = "idle"
    /\ ~RunningSeen(running)
    /\ running' = TRUE
    /\ stPc' = [stPc EXCEPT ![t] = "launch"]
    /\ UNCHANGED <<now, stopCh, doneCh, ctxDone, fsw, events, errPending,
                   loopPc, timer, pending, sPc, lastRecv, reloadsSince, reloadGap,
                   prevGap, prevReloads, launched, rootExists, newDir, lastReload,
                   notWatcher>>

\* no event loop of the watcher is running
NoLoop == loopPc \in {"off", "exited"}

\* part_000:289-300: the directories are added, a root that cannot be
\* added costs a warning; go w.run(ctx); return nil.  The new loop begins
\* with no timer and nothing pending (part_000:322-326).  A loop launched
\* while another is running is counted; the steps below are those of the
\* one loop running.
StartLaunch(t) ==
    /\ stPc[t] = "launch"
    /\ launched' = launched + 1
    /\ loopPc' = IF NoLoop THEN "select" ELSE loopPc
    /\ timer' = IF NoLoop THEN NoTimer ELSE timer
    /\ pending' = IF NoLoop THEN FALSE ELSE pending
    /\ stPc' = [stPc EXCEPT ![t] = "ok"]
    /\ UNCHANGED <<now, running, stopCh, doneCh, ctxDone, fsw, events, errPending,
                   sPc, lastRecv, reloadsSince, reloadGap,
                   prevGap, prevReloads, rootExists, newDir, lastReload, notWatcher>>

\* part_000:401  w.watcher.Close(): the handle is closed; "reclosed" keeps
\* that Close was called on a handle closed before
CloseHandle(h) == IF h = "open" THEN "closed" ELSE "reclosed"

\* close(ch) of a channel closed before panics (part_000:320, 414)
AfterClose(ch, done) == IF ch = "open" THEN done ELSE "panic"

\* Watcher.cleanup (part_000:397-402) and the deferred close of doneCh
\* (part_000:320).
Cleanup ==
    /\ timer' = [timer EXCEPT !.active = FALSE]
    /\ fsw' = CloseHandle(fsw)
    /\ doneCh' = "closed"
    /\ loopPc' = AfterClose(doneCh, "exited")

\* part_000:330-332  case <-ctx.Done()
LoopCtxDone ==
    /\ loopPc = "select"
    /\ ctxDone
    /\ Cleanup
    /\ UNCHANGED <<now, running, stopCh, ctxDone, events, errPending,
                   pending, sPc, lastRecv, reloadsSince, reloadGap, prevGap,
                   prevReloads, stPc, launched, rootExists,
                   newDir, lastReload, notWatcher>>

\* part_000:334-336  case <-w.stopCh
LoopStop ==
    /\ loopPc = "select"
    /\ stopCh = "closed"
    /\ Cleanup
    /\ UNCHANGED <<now, running, stopCh, ctxDone, events, errPending,
                   pending, sPc, lastRecv, reloadsSince, reloadGap, prevGap,
                   prevReloads, stPc, launched, rootExists,
                   newDir, lastReload, notWatcher>>

\* part_000:338-341  case event, ok := <-w.watcher.Events with the channel
\* closed and drained, which it is once the handle is closed: return, with
\* no cleanup, and the deferred close of doneCh.
LoopEventsClosed ==
    /\ loopPc = "select"
    /\ fsw # "open"
    /\ events = <<>>
    /\ doneCh' = "closed"
    /\ loopPc' = AfterClose(doneCh, "exited")
    /\ UNCHANGED <<now, running, stopCh, ctxDone, fsw, events, errPending, timer,
                   pending, sPc, lastRecv, reloadsSince, reloadGap, prevGap,
                   prevReloads, stPc, launched, rootExists,
                   newDir, lastReload, notWatcher>>

\* part_000:366-369  case err, ok := <-w.watcher.Errors with the channel
\* closed and drained: return, likewise.
LoopErrorsClosed ==
    /\ loopPc = "select"
    /\ fsw # "open"
    /\ ~errPending
    /\ doneCh' = "closed"
    /\ loopPc' = AfterClose(doneCh, "exited")
    /\ UNCHANGED <<now, running, stopCh, ctxDone, fsw, events, errPending, timer,
                   pending, sPc, lastRecv, reloadsSince, reloadGap, prevGap,
                   prevReloads, stPc, launched, rootExists,
                   newDir, lastReload, notWatcher>>

\* part_000:338-349  an event on a file not named SKILL.md: a new
\* directory is added to the watch, and the loop goes on.
LoopEventOther ==
    /\ loopPc = "select"
    /\ events # <<>>
    /\ Head(events) \in {"newdir", "other"}
    /\ events' = Tail(events)
    /\ newDir' = IF Head(events) = "newdir" /\ newDir = "created" THEN "registered"
                 ELSE newDir
    /\ UNCHANGED <<now, running, stopCh, doneCh, ctxDone, fsw, errPending, loopPc,
                   timer, pending, sPc, lastRecv, reloadsSince, reloadGap, prevGap,
                   prevReloads, stPc, launched, rootExists, lastReload, notWatcher>>

\* part_000:338-342, 351-364  an event on a file named SKILL.md, whatever
\* its operation: the timer is created or re-armed, pending is set.
LoopEventSkill ==
    /\ loopPc = "select"
    /\ events # <<>>
    /\ Head(events) \in {"skill", "skillop"}
    /\ events' = Tail(events)
    /\ timer' = IF ~timer.set THEN NewTimer(now + DebounceTicks)
                ELSE Rearm(timer, now + DebounceTicks)
    /\ pending' = TRUE
    /\ lastRecv' = now
    /\ reloadsSince' = 0
    /\ prevGap' = IF lastRecv = -1 THEN -1 ELSE now - lastRecv
    /\ prevReloads' = reloadsSince
    /\ UNCHANGED <<now, running, stopCh, doneCh, ctxDone, fsw, errPending, loopPc,
                   sPc, reloadGap, stPc, launched, rootExists, newDir, lastReload,
                   notWatcher>>

\* part_000:366-370  case err := <-w.watcher.Errors: the error is printed.
LoopError ==
    /\ loopPc = "select"
    /\ errPending
    /\ errPending' = FALSE
    /\ UNCHANGED <<now, running, stopCh, doneCh, ctxDone, fsw, events, loopPc,
                   timer, pending, sPc, lastRecv, reloadsSince, reloadGap, prevGap,
                   prevReloads, stPc, launched, rootExists,
                   newDir, lastReload, notWatcher>>

\* part_000:372-375  case <-timerCh with pending set: triggerReload begins.
LoopTimer ==
    /\ loopPc = "select"
    /\ timer.set /\ timer.c
    /\ pending
    /\ timer' = [timer EXCEPT !.c = FALSE]
    /\ loopPc' = "reload"
    /\ reloadsSince' = reloadsSince + 1
    /\ reloadGap' = now - lastRecv
    /\ UNCHANGED <<now, running, stopCh, doneCh, ctxDone, fsw, events, errPending,
                   pending, sPc, lastRecv, prevGap, prevReloads, stPc, launched, rootExists,
                   newDir, lastReload, notWatcher>>

\* A plausible slip: the loop gives up when a reload fails.
AfterReloadFatal(ok) == IF ok THEN "select" ELSE "exited"

\* part_000:389-393: the error of Registry.Reload is printed; run goes on
\* with its loop either way.
AfterReload(ok) == "select"

\* part_000:374-378, 387-394  Registry.Reload returns, with an error or
\* without; pending = false, timer = nil, timerCh = nil.
ReloadDone ==
    /\ loopPc = "reload"
    /\ \E ok \in BOOLEAN :
          /\ lastReload' = IF ok THEN "ok" ELSE "failed"
          /\ loopPc' = AfterReload(ok)
    /\ pending' = FALSE
    /\ timer' = NoTimer
    /\ UNCHANGED <<now, running, stopCh, doneCh, ctxDone, fsw, events, errPending,
                   sPc, lastRecv, reloadsSince, reloadGap, prevGap, prevReloads,
                   stPc, launched, rootExists, newDir, notWatcher>>

\* Watcher.Stop on a started watcher, part_000:406-410: not running,
\* return nil.
StopNotRunning(c) ==
    /\ sPc[c] = "idle"
    /\ loopPc # "off"
    /\ ~running
    /\ sPc' = [sPc EXCEPT ![c] = "returned"]
    /\ UNCHANGED <<now, running, stopCh, doneCh, ctxDone, fsw, events, errPending,
                   loopPc, timer, pending, lastRecv, reloadsSince, reloadGap, prevGap,
                   prevReloads, stPc, launched, rootExists,
                   newDir, lastReload, notWatcher>>

\* part_000:406-412: running; running = false, unlock.
StopClaim(c) ==
    /\ sPc[c] = "idle"
    /\ loopPc # "off"
    /\ running
    /\ running' = FALSE
    /\ sPc' = [sPc EXCEPT ![c] = "close"]
    /\ UNCHANGED <<now, stopCh, doneCh, ctxDone, fsw, events, errPending,
                   loopPc, timer, pending, lastRecv, reloadsSince, reloadGap, prevGap,
                   prevReloads, stPc, launched, rootExists,
                   newDir, lastReload, notWatcher>>

\* part_000:414  close(w.stopCh)
StopClose(c) ==
    /\ sPc[c] = "close"
    /\ stopCh' = "closed"
    /\ sPc' = [sPc EXCEPT ![c] = AfterClose(stopCh, "wait")]
    /\ UNCHANGED <<now, running, doneCh, ctxDone, fsw, events, errPending,
                   loopPc, timer, pending, lastRecv, reloadsSince, reloadGap, prevGap,
                   prevReloads, stPc, launched, rootExists,
                   newDir, lastReload, notWatcher>>

\* part_000:415-417  <-w.doneCh, return nil
StopWait(c) ==
    /\ sPc[c] = "wait"
    /\ doneCh = "closed"
    /\ sPc' = [sPc EXCEPT ![c] = "returned"]
    /\ UNCHANGED <<now, running, stopCh, doneCh, ctxDone, fsw, events, errPending,
                   loopPc, timer, pending, lastRecv, reloadsSince, reloadGap, prevGap,
                   prevReloads, stPc, launched, rootExists,
                   newDir, lastReload, notWatcher>>

\* Watcher.Stop before the loop is launched, part_000:406-410: not running,
\* return nil.
StopEarlyNotRunning(c) ==
    /\ sPc[c] = "idle"
    /\ loopPc = "off"
    /\ ~running
    /\ sPc' = [sPc EXCEPT ![c] = "returned"]
    /\ UNCHANGED <<now, running, stopCh, doneCh, ctxDone, fsw, events, errPending,
                   loopPc, timer, pending, lastRecv, reloadsSince, reloadGap, prevGap,
                   prevReloads, stPc, launched, rootExists,
                   newDir, lastReload, notWatcher>>

\* part_000:406-412 between Start's claim of w.running and its launch of
\* the loop: running; running = false, unlock.
StopEarlyClaim(c) ==
    /\ sPc[c] = "idle"
    /\ loopPc = "off"
    /\ running
    /\ running' = FALSE
    /\ sPc' = [sPc EXCEPT ![c] = "close"]
    /\ UNCHANGED <<now, stopCh, doneCh, ctxDone, fsw, events, errPending,
                   loopPc, timer, pending, lastRecv, reloadsSince, reloadGap, prevGap,
                   prevReloads, stPc, launched, rootExists,
                   newDir, lastReload, notWatcher>>

(***************************************************************************)
(* Three environments of the watcher.  NextWatcher: one caller of Start,   *)
(* two of Stop, the clock and the events of the watched root.              *)
(* NextNewDir: one caller of Start, the clock, and a directory made under  *)
(* the root while the loop runs, with a SKILL.md written in it.            *)
(* NextLifecycle: two callers of Start and two of Stop, and the context;   *)
(* here a Start can follow a completed Stop, and the loop it launches      *)
(* finds the handle closed.                                                *)
(***************************************************************************)
NextWatcher ==
    \/ Tick
    \/ TimerFire
    \/ EventArrive
    \/ ErrorArrive
    \/ CtxCancel
    \/ StartClaim("t1")
    \/ StartLaunch("t1")
    \/ LoopCtxDone
    \/ LoopStop
    \/ LoopEventOther
    \/ LoopEventSkill
    \/ LoopError
    \/ LoopTimer
    \/ ReloadDone
    \/ \E c \in Stoppers :
          \/ StopNotRunning(c)
          \/ StopClaim(c)
          \/ StopClose(c)
          \/ StopWait(c)

NextNewDir ==
    \/ Tick
    \/ TimerFire
    \/ EventArrive
    \/ CreateDir
    \/ WriteUnwatched
    \/ WriteWatched
    \/ StartClaim("t1")
    \/ StartLaunch("t1")
    \/ LoopEventOther
    \/ LoopEventSkill
    \/ LoopTimer
    \/ ReloadDone

NextLifecycle ==
    \/ CtxCancel
    \/ LoopCtxDone
    \/ LoopStop
    \/ LoopEventsClosed
    \/ LoopErrorsClosed
    \/ \E t \in Starters :
          \/ StartReject(t)
          \/ StartClaim(t)
          \/ StartLaunch(t)
    \/ \E c \in Stoppers :
          \/ StopNotRunning(c)
          \/ StopClaim(c)
          \/ StopClose(c)
          \/ StopWait(c)
          \/ StopEarlyNotRunning(c)
          \/ StopEarlyClaim(c)

\* The clock past the horizon: it goes on while a timer is armed.
TickPast ==
    /\ now >= MaxTime
    /\ timer.active
    /\ ~Urgent
    /\ now' = now + 1
    /\ UNCHANGED <<running, stopCh, doneCh, ctxDone, fsw, events, errPending, loopPc,
                   timer, pending, sPc, lastRecv, reloadsSince, reloadGap, prevGap,
                   prevReloads, stPc, launched, rootExists,
                   newDir, lastReload, notWatcher>>

\* The source's events pause from the horizon on.
EventBeforePause == now < MaxTime /\ EventArrive

\* run's steps: the goroutine at its select, and Registry.Reload returning.
LoopStep ==
    \/ LoopCtxDone
    \/ LoopStop
    \/ LoopEventOther
    \/ LoopEventSkill
    \/ LoopTimer
    \/ ReloadDone

(***************************************************************************)
(* NextDebounce: one caller of Start, one of Stop, the context, and a      *)
(* source whose events pause at the horizon while the clock goes on.       *)
(* Fairness: the scheduler runs the loop's goroutine when it can take a    *)
(* step and Registry.Reload returns (LoopStep); the runtime fires a timer  *)
(* that is due (TimerFire); time passes when nothing is due (Tick,         *)
(* TickPast); and the source's events pause in the end (EventsPause).      *)
(***************************************************************************)
NextDebounce ==
    \/ Tick
    \/ TickPast
    \/ TimerFire
    \/ EventBeforePause
    \/ CtxCancel
    \/ StartClaim("t1")
    \/ StartLaunch("t1")
    \/ LoopStep
    \/ StopClaim("s1")
    \/ StopClose("s1")
    \/ StopWait("s1")

EventsPause == <>[][~EventBeforePause]_vars

FairDebounce ==
    /\ WF_vars(LoopStep)
    /\ WF_vars(TimerFire)
    /\ WF_vars(Tick \/ TickPast)
    /\ EventsPause

(***************************************************************************)
(* The registry's queries over r.metadata: Registry.FindMatchingSkill      *)
(* (part_001:143-166) with calculateMatchScore (169-190),                  *)
(* Registry.GenerateSystemPromptSection (193-215) and                      *)
(* SkillsMiddleware.InjectPrompt (middleware/skills.go:34-50).  Each runs  *)
(* under r.mu.RLock over one list.                                         *)
(***************************************************************************)
\* strings.Fields: the maximal runs of characters that are not white space
RECURSIVE FieldsLoop(_, _, _)
FieldsLoop(s, word, acc) ==
    IF s = <<>> THEN (IF word = <<>> THEN acc ELSE Append(acc, word))
    ELSE IF IsSpace(Head(s))
    THEN FieldsLoop(Tail(s), <<>>, IF word = <<>> THEN acc ELSE Append(acc, word))
    ELSE FieldsLoop(Tail(s), Append(word, Head(s)), acc)

Fields(s) == FieldsLoop(s, <<>>, <<>>)

\* part_001:175-179  for _, word := range queryWords: the name
RECURSIVE NameScore(_, _, _)
NameScore(name, words, score) ==
    IF words = <<>> THEN score
    ELSE NameScore(name, Tail(words),
                   IF Contains(name, Head(words)) THEN score + 3 ELSE score)

\* part_001:183-187  for _, word := range queryWords: the description
RECURSIVE DescScore(_, _, _)
DescScore(desc, words, score) ==
    IF words = <<>> THEN score
    ELSE DescScore(desc, Tail(words),
                   IF Len(Head(words)) > 2 /\ Contains(desc, Head(words))
                   THEN score + 1 ELSE score)

calculateMatchScore(query, m) ==
    DescScore(ToLower(m.desc), Fields(query),
              NameScore(ToLower(m.name), Fields(query), 0))

\* A plausible slip: a later entry with the same score replaces the best.
BetterOrEqual(score, bestScore) == score >= bestScore

\* part_001:154  if score > bestScore
Better(score, bestScore) == score > bestScore

\* bestMatch: nil, or &r.metadata[i]
NoMatch == [found |-> FALSE, index |-> 0]

\* part_001:151-158  for i := range r.metadata
RECURSIVE FindLoop(_, _, _, _, _)
FindLoop(list, i, query, bestScore, bestMatch) ==
    IF i > Len(list) THEN [bestScore |-> bestScore, bestMatch |-> bestMatch]
    ELSE IF Better(calculateMatchScore(query, list[i]), bestScore)
    THEN FindLoop(list, i + 1, query, calculateMatchScore(query, list[i]),
                  [found |-> TRUE, index |-> i])
    ELSE FindLoop(list, i + 1, query, bestScore, bestMatch)

FindMatchingSkill(list, query) ==
    LET r == FindLoop(list, 1, ToLower(query), 0, NoMatch)
    IN  IF r.bestScore < 2 THEN NoMatch ELSE r.bestMatch

\* the rendered text, line by line: a line that is a tag, or the text of a
\* field; "" is no line at all
Tag(t) == [tag |-> t]
Text(t) == [text |-> t]

\* part_001:205-209  one <skill> entry
SkillEntry(m) ==
    << Tag("<skill>"),
       Tag("<name>"), Text(m.name), Tag("</name>"),
       Tag("<description>"), Text(m.desc), Tag("</description>"),
       Tag("<location>"), Text(m.path \o <<"/", "S", "K", "I", "L", "L", ".", "m", "d">>), Tag("</location>"),
       Tag("</skill>"), Text(<<>>) >>

\* part_001:204-210  for _, m := range r.metadata
RECURSIVE SkillEntries(_)
SkillEntries(list) ==
    IF list = <<>> THEN <<>> ELSE SkillEntry(Head(list)) \o SkillEntries(Tail(list))

\* A plausible slip: the wrapper written whatever the list holds.
NoMetadataNever(list) == FALSE

\* part_001:197  if len(r.metadata) == 0
NoMetadata(list) == Len(list) = 0

GenerateSystemPromptSection(list) ==
    IF NoMetadata(list) THEN <<>>
    ELSE <<Tag("<available_skills>")>> \o SkillEntries(list)
         \o <<Tag("</available_skills>")>>

\* part_001:218-230: the fixed text, which names <available_skills> in a
\* sentence
GenerateSkillsInstructions ==
    << Tag("<skills_instructions>"),
       Text(<<"C", "h", "e", "c", "k", " ", "<", "a", "v", "a", "i", "l", "a", "b", "l", "e", "_", "s", "k", "i", "l", "l", "s", ">">>),
       Tag("</skills_instructions>") >>

\* middleware/skills.go:34-50; "\n\n" and "\n" end a line and leave an
\* empty one
InjectPrompt(basePrompt, list) ==
    LET skillsSection == GenerateSystemPromptSection(list)
        instructions == GenerateSkillsInstructions
    IN  IF skillsSection = <<>> THEN basePrompt
        ELSE basePrompt \o <<Text(<<>>)>> \o skillsSection \o <<Text(<<>>)>>
             \o instructions

(***************************************************************************)
(* Query harness: a metadata list of up to MaxEntries entries over a few   *)
(* names and descriptions, in either case, and a few queries.              *)
(***************************************************************************)
QNames == { <<"a", "b">>, <<"A", "b">>, <<"b">> }

QDescs == { <<>>, <<"a", "b", "b", " ", "a">>, <<"B", "a", "b">> }

QEntries == { [name |-> n, desc |-> d, path |-> <<"g", "/">> \o n] : n \in QNames, d \in QDescs }

QLists == UNION { [1..n -> QEntries] : n \in 0..MaxEntries }

QQueries ==
    { <<>>, <<"a", "b">>, <<"A", "B", " ", "a", "b", "b">>, <<" ", "b", "a", "b", " ", " ", "b", " ">>, <<"b", " ", "b">>, <<"a", "b", "b">>, <<"a">> }

QBases == { <<>>, <<Text(<<"x">>)>> }

InitQuery ==
    /\ qMeta \in QLists
    /\ qQuery \in QQueries
    /\ qBase \in QBases
    /\ qMatch = NoResult
    /\ qSection = NoResult
    /\ qPrompt = NoResult

CallFindMatchingSkill ==
    /\ qMatch = NoResult
    /\ qMatch' = FindMatchingSkill(qMeta, qQuery)
    /\ UNCHANGED <<qMeta, qQuery, qBase, qSection, qPrompt, notQuery>>

CallGenerateSystemPromptSection ==
    /\ qSection = NoResult
    /\ qSection' = [lines |-> GenerateSystemPromptSection(qMeta)]
    /\ UNCHANGED <<qMeta, qQuery, qBase, qMatch, qPrompt, notQuery>>

CallInjectPrompt ==
    /\ qPrompt = NoResult
    /\ qPrompt' = [lines |-> InjectPrompt(qBase, qMeta)]
    /\ UNCHANGED <<qMeta, qQuery, qBase, qMatch, qSection, notQuery>>

NextQuery ==
    \/ CallFindMatchingSkill
    \/ CallGenerateSystemPromptSection
    \/ CallInjectPrompt

(***************************************************************************)
(* Loader.LoadSkillContent (loader.go:135-147) on one in-memory Skill,     *)
(* which Registry.GetContent calls on the instance Get returns             *)
(* (part_001:125-132).  A Skill made by loadSingleSkill carries the body   *)
(* Parse returned (loader.go:229, 244), which is "" for a document with    *)
(* nothing after its header.                                               *)
(***************************************************************************)
\* the bodies a document can have, trimmed
Bodies == {"", "x", "y"}

\* what Parser.ParseFile makes of SKILL.md: an error, or its body
Files == { [err |-> TRUE, body |-> ""] } \cup { [err |-> FALSE, body |-> b] : b \in Bodies }

\* loader.go:136  the test skill.Content != "", negated
ContentUnset(content) == content = ""

\* the call's results, the Skill as the call leaves it, and whether it
\* called ParseFile
LoadSkillContent(skill, file) ==
    IF ~ContentUnset(skill.content)
    THEN [content |-> skill.content, err |-> FALSE, skill |-> skill, read |-> FALSE]
    ELSE IF file.err
    THEN [content |-> "", err |-> TRUE, skill |-> skill, read |-> TRUE]
    ELSE [content |-> file.body, err |-> FALSE,
          skill |-> [skill EXCEPT !.content = file.body], read |-> TRUE]

InitContent ==
    /\ cFile \in Files
    /\ cSkill \in { [content |-> b] : b \in Bodies }
    /\ cCalls = 0
    /\ cReads = 0
    /\ cOut = NoResult
    /\ cSet = FALSE

\* The document is rewritten between two calls.
FileChange ==
    /\ cFile' \in Files \ {cFile}
    /\ UNCHANGED <<cSkill, cCalls, cReads, cOut, cSet, notContent>>

CallLoadSkillContent ==
    /\ cCalls < MaxCalls
    /\ LET r == LoadSkillContent(cSkill, cFile)
       IN  /\ cSkill' = r.skill
           /\ cOut' = [content |-> r.content, err |-> r.err]
           /\ cReads' = IF r.read THEN cReads + 1 ELSE cReads
           /\ cSet' = (cSet \/ (r.read /\ ~r.err))
    /\ cCalls' = cCalls + 1
    /\ UNCHANGED <<cFile, notContent>>

NextContent ==
    \/ FileChange
    \/ CallLoadSkillContent

(***************************************************************************)
(* Parser harness: bodies drawn from a small set of lines.                 *)
(***************************************************************************)
HeadingLine(level, label) == Rep("#", level) \o <<" ">> \o label

PLines ==
    { HeadingLine(1, <<"A">>), HeadingLine(2, <<"A">>), HeadingLine(3, <<"A">>),
      HeadingLine(1, <<"B">>), HeadingLine(2, <<"B">>), HeadingLine(6, <<"B">>),
      HeadingLine(1, <<"a">>),
      <<"#", "A", "B">>,                    \* "#AB": no space, label AB
      <<" ", "#", "#", " ", "A">>,          \* " ## A": leading whitespace
      <<"x">>, <<"x", " ">>, <<>> }

PHeadings == { <<"A">>, <<"b">> }

\* strings.Split(body, "\n") of any body is a non-empty list of lines;
\* the empty body is the single empty line.
PBodies == UNION { [1..n -> PLines] : n \in 1..MaxLines }

InitParserVars ==
    /\ pBody \in PBodies
    /\ pHeading \in PHeadings
    /\ pSection = NoResult
    /\ pTOC = NoResult

CallExtractSection ==
    /\ pSection = NoResult
    /\ pSection' = ExtractSection(pBody, pHeading)
    /\ UNCHANGED <<pBody, pHeading, pTOC, notParser>>

CallExtractTOC ==
    /\ pTOC = NoResult
    /\ pTOC' = ExtractTOC(pBody)
    /\ UNCHANGED <<pBody, pHeading, pSection, notParser>>

NextParser ==
    \/ CallExtractSection
    \/ CallExtractTOC

(***************************************************************************)
(* Document harness: documents put together from a few lines before the    *)
(* header, an opening delimiter, a header, a closing delimiter and a body, *)
(* each of which may be missing.                                           *)
(***************************************************************************)
DNames == { <<>>, <<"a">>, Rep("a", MaxNameLength), Rep("a", MaxNameLength + 1) }

DDescs == { <<>>, <<"d">>, Rep("d", MaxDescriptionLength), Rep("d", MaxDescriptionLength + 1) }

DHeaders ==
    { <<KeyLine("n", n), KeyLine("d", d)>> : n \in DNames, d \in DDescs }
    \cup { <<>>, << <<"!">> >>, <<KeyLine("n", <<"a">>)>>,
           <<KeyLine("n", <<"a">>), KeyLine("n", <<"a">>), KeyLine("d", <<"d">>)>> }

DBefore == { <<>>, << <<>> >>, << Rep("-", 4) >>, << Dash3 \o <<"x">> >>, << <<"x">> >> }

DOpen == { <<>>, <<Dash3>>, << <<" ">> \o Dash3 \o <<" ">> >> }

DClose == { <<>>, <<Dash3>> }

DBodies == { <<>>, << <<"x">> >>, << <<>>, <<"x">>, <<" ">> >>, << <<"x">>, Dash3, <<"y">> >> }

\* bytes.Split(data, "\n") of any data is a non-empty list of lines
AsLines(ls) == IF ls = <<>> THEN << <<>> >> ELSE ls

DDocs ==
    { AsLines(b \o o \o h \o c \o t) :
        b \in DBefore, o \in DOpen, h \in DHeaders, c \in DClose, t \in DBodies }

InitDoc ==
    /\ dDoc \in DDocs
    /\ dParse = NoResult
    /\ dMeta = NoResult

CallParse ==
    /\ dParse = NoResult
    /\ dParse' = Parse(dDoc)
    /\ UNCHANGED <<dDoc, dMeta, notDoc>>

CallParseMetadataOnly ==
    /\ dMeta = NoResult
    /\ dMeta' = ParseMetadataOnly(dDoc)
    /\ UNCHANGED <<dDoc, dParse, notDoc>>

NextDoc ==
    \/ CallParse
    \/ CallParseMetadataOnly

(***************************************************************************)
(* Long documents, about the scan's limit: lines of text, an opening       *)
(* delimiter, a name and a description, blank lines, and a closing         *)
(* delimiter or none.                                                      *)
(***************************************************************************)
LongCounts == { 0, 1, LineLimit - 3, LineLimit - 2, LineLimit - 1, LineLimit }

LongDocs ==
    { Rep(<<"x">>, b) \o <<Dash3>>
        \o <<KeyLine("n", <<"a">>), KeyLine("d", <<"d">>)>> \o Rep(<<>>, h) \o c :
        b \in LongCounts, h \in LongCounts, c \in DClose }

InitLongDoc ==
    /\ dDoc \in LongDocs
    /\ dParse = NoResult
    /\ dMeta = NoResult

(***************************************************************************)
(* The specifications.  Each starts the harnesses it does not use in one   *)
(* fixed state and leaves them there.                                      *)
(***************************************************************************)
IdleParser ==
    /\ pBody = << <<>> >>
    /\ pHeading = <<>>
    /\ pSection = NoResult
    /\ pTOC = NoResult

IdleLoader ==
    /\ lFs = [global |-> [state |-> "absent", dirs |-> EmptyDirs],
              project |-> [state |-> "absent", dirs |-> EmptyDirs]]
    /\ lCancelled = FALSE
    /\ lMeta = NoResult
    /\ lAll = NoResult
    /\ lName = "a"
    /\ lSkill = NoResult

IdleRegistry ==
    /\ disk = [global |-> AbsentRoot, project |-> AbsentRoot]
    /\ metadata = <<>>
    /\ skills = EmptyMap
    /\ mu = [writer |-> "none", readers |-> {}]
    /\ autoWatch = FALSE
    /\ rwatcher = NilWatcher
    /\ loops = <<>>
    /\ pc = [p \in Procs |-> "idle"]
    /\ loc = [p \in Procs |-> NoCall]
    /\ loads = 0
    /\ inits = 0
    /\ metaGen = 0
    /\ cacheGen = 0
    /\ readTorn = FALSE
    /\ inserted = NoInsert
    /\ stopped = FALSE

IdleWatcher == InitWatcher /\ rootExists

IdleDoc ==
    /\ dDoc = << <<>> >>
    /\ dParse = NoResult
    /\ dMeta = NoResult

IdleQuery ==
    /\ qMeta = <<>>
    /\ qQuery = <<>>
    /\ qBase = <<>>
    /\ qMatch = NoResult
    /\ qSection = NoResult
    /\ qPrompt = NoResult

IdleContent ==
    /\ cFile = [err |-> FALSE, body |-> ""]
    /\ cSkill = [content |-> ""]
    /\ cCalls = 0
    /\ cReads = 0
    /\ cOut = NoResult
    /\ cSet = FALSE

InitParser == InitParserVars /\ IdleLoader /\ IdleRegistry /\ IdleWatcher /\ IdleDoc /\ IdleQuery /\ IdleContent

SpecParser == InitParser /\ [][NextParser]_vars

InitLoaderSpec == InitLoader /\ IdleParser /\ IdleRegistry /\ IdleWatcher /\ IdleDoc /\ IdleQuery /\ IdleContent

InitRegWatch == InitRegistry /\ IdleParser /\ IdleLoader /\ IdleWatcher /\ IdleDoc /\ IdleQuery /\ IdleContent

Init == InitRegWatch /\ ~autoWatch


Next == NextRegistry

Spec == Init /\ [][Next]_vars

SpecRegWatch == InitRegWatch /\ [][NextRegWatch]_vars

SpecCache == Init /\ [][NextCache]_vars

InitWatcherSpec == InitWatcher /\ IdleParser /\ IdleLoader /\ IdleRegistry /\ IdleDoc /\ IdleQuery /\ IdleContent

SpecWatcher == InitWatcherSpec /\ [][NextWatcher]_vars

SpecNewDir == InitWatcherSpec /\ [][NextNewDir]_vars

SpecLifecycle == InitWatcherSpec /\ [][NextLifecycle]_vars

SpecDebounce == InitWatcherSpec /\ [][NextDebounce]_vars /\ FairDebounce

SpecLoader == InitLoaderSpec /\ [][NextLoader]_vars

InitDocSpec == InitDoc /\ IdleParser /\ IdleLoader /\ IdleRegistry /\ IdleWatcher /\ IdleQuery /\ IdleContent

SpecDoc == InitDocSpec /\ [][NextDoc]_vars

InitLongDocSpec == InitLongDoc /\ IdleParser /\ IdleLoader /\ IdleRegistry /\ IdleWatcher /\ IdleQuery /\ IdleContent

SpecLongDoc == InitLongDocSpec /\ [][CallParseMetadataOnly]_vars

InitQuerySpec == InitQuery /\ IdleParser /\ IdleLoader /\ IdleRegistry /\ IdleWatcher /\ IdleDoc /\ IdleContent

SpecQuery == InitQuerySpec /\ [][NextQuery]_vars

InitContentSpec ==
    InitContent /\ IdleParser /\ IdleLoader /\ IdleRegistry /\ IdleWatcher /\ IdleDoc /\ IdleQuery

SpecContent == InitContentSpec /\ [][NextContent]_vars

(***************************************************************************)
(* Loader claims.                                                          *)
(***************************************************************************)
\* a root directory holds a valid skill whose header name is x
HasValid(root, x) ==
    root.state = "ok" /\ \E d \in DirNames : root.dirs[d].kind = "valid" /\ root.dirs[d].name = x

\* the entries of a list that carry the name x
Named(list, x) == { i \in 1..Len(list) : list[i].name = x }

\* e is the project root's skill of name x: its source, and the
\* description and path of a project directory whose header names x
IsProjectVersion(e, x, fs, Accepts(_)) ==
    /\ e.source = SourceProject
    /\ \E d \in DirNames :
          /\ Accepts(fs.project.dirs[d])
          /\ fs.project.dirs[d].name = x
          /\ e.desc = fs.project.dirs[d].desc
          /\ e.path = SkillPath(SourceProject, d)

MergedToProject(out, x, fs, Accepts(_)) ==
    (out # NoResult /\ out.err = "none") =>
        /\ Cardinality(Named(out.list, x)) = 1
        /\ \A i \in Named(out.list, x) : IsProjectVersion(out.list[i], x, fs, Accepts)

\* C4: when both roots hold a valid skill of header name x, the result of
\* LoadMetadataOnly, and of LoadAll, has exactly one entry named x, and it
\* is the project's: source project, the project skill's description and
\* path.
C4_MergePrecedence ==
    \A x \in SkillNames :
        (HasValid(lFs.global, x) /\ HasValid(lFs.project, x)) =>
            /\ MergedToProject(lMeta, x, lFs, MetaParses)
            /\ MergedToProject(lAll, x, lFs, FullParses)

\* C4 witness: global a/ and project b/ both declare the name "a"; both
\* loads returned the one project entry.
C4_Witness ==
    /\ lFs.global.state = "ok" /\ lFs.project.state = "ok"
    /\ lFs.global.dirs["a"] = [kind |-> "valid", name |-> "a", desc |-> "d1"]
    /\ lFs.project.dirs["b"] = [kind |-> "valid", name |-> "a", desc |-> "d2"]
    /\ lMeta # NoResult /\ lAll # NoResult
    /\ lMeta.err = "none" /\ lAll.err = "none"
    /\ lMeta.list = << [name |-> "a", desc |-> "d2", source |-> SourceProject,
                        path |-> SkillPath(SourceProject, "b")] >>
    /\ lAll.list = lMeta.list

(***************************************************************************)
(* Registry claims, checked under Spec (C1, C5) and SpecCache (C6).        *)
(***************************************************************************)
\* C1: a reload is atomic for readers.  No read of the registry runs
\* between the assignment of the metadata list and the reset of the cache;
\* while a call holds the read lock the list it has read is the list the
\* registry holds, with its cache reset; and a call that reads the list
\* twice (its length, then its entries) reads one and the same list.
C1_ReloadAtomic ==
    /\ ~readTorn
    /\ \A p \in Procs :
          /\ pc[p] = "scan" =>
                /\ loc[p].gen = metaGen
                /\ loc[p].n = Len(metadata)
                /\ metaGen = cacheGen
          /\ loc[p].whole

\* C1 happens: a scan has finished while another caller stands between the
\* two assignments of a reload that brought a non-empty list.
C1_Witness ==
    \E p, q \in Procs :
        /\ pc[p] = "idle" /\ loc[p].op = "scan"
        /\ pc[q] = "init_clear"
        /\ metaGen # cacheGen
        /\ metadata # <<>>

\* C5: no two entries of the registry's metadata list have the same name.
C5_UniqueNames ==
    \A i, j \in DOMAIN metadata : i # j => metadata[i].name # metadata[j].name

\* the header name is declared by more than one directory
DeclaredTwice(f, x) ==
    Cardinality({ sd \in {SourceGlobal, SourceProject} \X DirNames :
                    /\ RootOf(f, sd[1]).state = "ok"
                    /\ MetaParses(RootOf(f, sd[1]).dirs[sd[2]])
                    /\ RootOf(f, sd[1]).dirs[sd[2]].name = x }) > 1

\* C5 happens: a reload has just assigned the list it discovered on a
\* filesystem where some name is declared by more than one directory.
C5_Witness ==
    \E p \in Procs :
        /\ pc[p] = "init_clear"
        /\ metadata \in { out.list : out \in LoadMetadataOnly(disk, FALSE) }
        /\ \E i \in DOMAIN metadata : DeclaredTwice(disk, metadata[i].name)

\* a Get that hits returns at once and changes neither cache nor list, and
\* calls no loader
HitLeavesRegistry ==
    \A p \in Procs :
        GetHit(p) => /\ skills' = skills
                     /\ metadata' = metadata
                     /\ loads' = loads
                     /\ pc'[p] = "idle"

\* C6 as stated: a Get that hits returns the cached Skill without loading
\* and changes nothing; a Get that follows an insertion under its name, with
\* no Initialize/Reload in between, hits and returns the inserted instance.
C6_GetFollowsInsert ==
    /\ [](\A p \in Procs :
             loc[p].op = "Get" /\ loc[p].follow => loc[p].hit /\ loc[p].same)
    /\ [][HitLeavesRegistry]_vars

\* C6, amended: a Get that hits returns the cached Skill without loading and
\* changes nothing; a Get that follows an insertion under its name, with no
\* Initialize/Reload and no other insertion under that name in between,
\* hits and returns the inserted instance.
C6_GetFollowsLatestInsert ==
    /\ [](\A p \in Procs :
             loc[p].op = "Get" /\ loc[p].follow => loc[p].hit /\ loc[p].sameAsLast)
    /\ [][HitLeavesRegistry]_vars

\* C6 happens: a Get has hit, after two insertions under its name and no
\* reset since, and has returned the instance of the later one.
C6_Witness ==
    \E p \in Procs :
        /\ pc[p] = "idle" /\ loc[p].op = "Get" /\ loc[p].hit
        /\ loc[p].follow /\ loc[p].sameAsLast /\ ~loc[p].same

(***************************************************************************)
(* Parser claims.  The claims' own reading of a body: a heading line, its  *)
(* level and its label, written without the parser's helpers.              *)
(***************************************************************************)
\* number of leading '#' of a line
HashRun(line) ==
    CHOOSE n \in 0..Len(line) :
        /\ \A i \in 1..n : line[i] = "#"
        /\ n = Len(line) \/ line[n + 1] # "#"

\* a heading line as section extraction sees it: '#' in the first column
IsHeading(line) == HashRun(line) >= 1

LevelOf(line) == HashRun(line)

LabelOf(line) == TrimSpace(SubSeq(line, HashRun(line) + 1, Len(line)))

\* case-insensitive, whole-label match
LabelIs(line, name) ==
    /\ Len(LabelOf(line)) = Len(name)
    /\ \A i \in 1..Len(name) : LowerChar(LabelOf(line)[i]) = LowerChar(name[i])

Matching(body, name) == { i \in 1..Len(body) : IsHeading(body[i]) /\ LabelIs(body[i], name) }

Min(S) == CHOOSE x \in S : \A y \in S : x <= y

FirstMatch(body, name) == Min(Matching(body, name))

\* the first line after the first match that is a heading of level <= L,
\* or one past the end
SpanEnd(body, name) ==
    LET i == FirstMatch(body, name)
        L == LevelOf(body[i])
        later == { j \in (i + 1)..Len(body) : IsHeading(body[j]) /\ LevelOf(body[j]) <= L }
    IN  IF later = {} THEN Len(body) + 1 ELSE Min(later)

SectionCalled == pSection # NoResult

\* C7: with the first matching heading at level L, the result is the lines
\* from that heading up to, excluding, the first later heading of level <= L
\* (or the end of the body), surrounding blank space trimmed.
C7_SectionSpan ==
    (SectionCalled /\ Matching(pBody, pHeading) # {}) =>
        pSection.out =
            TrimSpace(Join(SubSeq(pBody, FirstMatch(pBody, pHeading),
                                  SpanEnd(pBody, pHeading) - 1)))

\* C9: a heading matches when its trimmed label equals the requested name
\* up to case, the whole label and not a part of it; the result is empty
\* exactly when no heading matches (an empty body included), and otherwise
\* starts at the first matching heading line.
C9_ExactCaseInsensitiveLookup ==
    SectionCalled =>
        /\ (Matching(pBody, pHeading) = {}) <=> (pSection.out = <<>>)
        /\ Matching(pBody, pHeading) # {} =>
              pSection.result[1] = pBody[FirstMatch(pBody, pHeading)]
        /\ pBody = << <<>> >> => pSection.out = <<>>

\* C9 witness: "#AB" holds the name only as a part and is passed over;
\* "# a" differs from the name in case only and is matched.
C9_Witness ==
    /\ SectionCalled
    /\ pHeading = <<"A">>
    /\ Len(pBody) = 2
    /\ pBody[1] = <<"#", "A", "B">>
    /\ pBody[2] = <<"#", " ", "a">>
    /\ pSection.out = <<"#", " ", "a">>

\* C10: a later heading with the matched label is a heading like any
\* other: it ends the section when its level is <= L, and the level the
\* end is decided against stays that of the first match.
C10_FirstMatchOnly ==
    (SectionCalled /\ Matching(pBody, pHeading) # {}) =>
        /\ pSection.sectionLevel = LevelOf(pBody[FirstMatch(pBody, pHeading)])
        /\ Len(pSection.result) <= SpanEnd(pBody, pHeading) - FirstMatch(pBody, pHeading)

\* a heading line of the outline: leading whitespace dropped, 1..6 '#'
IsOutlineHeading(line) ==
    HashRun(TrimLeftSpace(line)) >= 1 /\ HashRun(TrimLeftSpace(line)) <= 6

OutlineHeadings(body) == { i \in 1..Len(body) : IsOutlineHeading(body[i]) }

\* the k-th smallest element of a set of numbers
Nth(S, k) == CHOOSE x \in S : Cardinality({ y \in S : y < x }) = k - 1

TOCCalled == pTOC # NoResult

\* C8: the outline has one line per heading line, in document order, the
\* i-th being the i-th heading's markup and label behind exactly
\* 2*(level-1) spaces, whatever the levels of the headings before it.
C8_Outline ==
    TOCCalled =>
        /\ Len(pTOC.lines) = Cardinality(OutlineHeadings(pBody))
        /\ \A k \in 1..Len(pTOC.lines) :
              LET h == TrimLeftSpace(pBody[Nth(OutlineHeadings(pBody), k)])
              IN  pTOC.lines[k] =
                    Rep(" ", 2 * (LevelOf(h) - 1)) \o Rep("#", LevelOf(h))
                        \o <<" ">> \o LabelOf(h)
        /\ OutlineHeadings(pBody) = {} => pTOC.out = <<>>

\* C8 witness: a level-6 heading directly after a level-1 heading, behind
\* ten spaces.
C8_Witness ==
    /\ TOCCalled
    /\ Len(pBody) = 3
    /\ pBody[1] = HeadingLine(1, <<"A">>)
    /\ pBody[2] = HeadingLine(6, <<"B">>)
    /\ pBody[3] = <<"x">>
    /\ pTOC.lines = << HeadingLine(1, <<"A">>), Rep(" ", 10) \o HeadingLine(6, <<"B">>) >>


(***************************************************************************)
(* Watcher claims, checked under SpecWatcher.  A qualifying event is one   *)
(* the loop takes as a change of a SKILL.md; it arrives when the loop      *)
(* takes it from the channel.                                              *)
(***************************************************************************)
\* ticks since the loop last took a qualifying event
Quiet == now - lastRecv

\* no reload before a window has passed since the last qualifying event, at
\* most one after it, begun exactly one window after it; and one is begun
\* once more than a window has passed with the loop still running
OneReloadPerBurst ==
    /\ lastRecv >= 0 /\ Quiet < DebounceTicks => reloadsSince = 0
    /\ reloadsSince <= 1
    /\ reloadsSince >= 1 => reloadGap = DebounceTicks
    /\ lastRecv >= 0 /\ Quiet > DebounceTicks /\ loopPc \in {"select", "reload"}
          => reloadsSince = 1
    /\ prevGap >= 0 /\ prevGap < DebounceTicks => prevReloads = 0

\* C2 as stated: qualifying events each less than a window after the one
\* before, then a quiet period of at least one window, cause exactly one
\* reload, begun when the timer fires with no re-arm since the last event.
\* Here the quiet period ends with the next qualifying event, a window or
\* more after the last.
C2_Debounce ==
    /\ OneReloadPerBurst
    /\ prevGap >= DebounceTicks => prevReloads = 1

\* C2, amended: as stated, for a quiet period of more than one window in
\* which the loop keeps running.
C2_DebounceStrictQuiet ==
    /\ OneReloadPerBurst
    /\ prevGap > DebounceTicks => prevReloads = 1

\* C2 happens: two qualifying events less than a window apart, a window of
\* quiet, and the one reload is running.
C2_Witness ==
    /\ prevGap >= 0 /\ prevGap < DebounceTicks
    /\ Quiet >= DebounceTicks
    /\ loopPc = "reload"
    /\ reloadsSince = 1

\* C3: once a call of Stop on a started watcher has returned, the loop has
\* exited, the notification handle is closed and no reload runs or begins.
C3_StopWaitsForLoop ==
    \A c \in Stoppers :
        sPc[c] = "returned" => loopPc = "exited" /\ fsw = "closed"


(***************************************************************************)
(* Document claims, checked under SpecDoc.                                 *)
(***************************************************************************)
\* the header misses a required field or exceeds a cap
BadHeader(fm) ==
    \/ fm.name = <<>>
    \/ Len(fm.name) > 64
    \/ fm.desc = <<>>
    \/ Len(fm.desc) > 1024

\* a parse that came to validate its header fails exactly on a bad header,
\* and a failed parse returns neither header nor body
FailsClosed(r) ==
    r # NoResult =>
        /\ r.validated.reached => (r.err # "none" <=> BadHeader(r.validated.fm))
        /\ r.err # "none" => ~r.hasFm /\ r.fm = NoFm /\ r.body = <<>>

\* C11: validation fails exactly when the name is empty or longer than 64
\* or the description is empty or longer than 1024, and then Parse and
\* ParseMetadataOnly return no header and no body.
C11_ValidationFailsClosed == FailsClosed(dParse) /\ FailsClosed(dMeta)

\* C11 happens: both parses have come to validate a header with a name
\* of 65 characters and a good description, and have rejected it.
C11_Witness ==
    /\ dParse # NoResult /\ dMeta # NoResult
    /\ dParse.validated.reached /\ dMeta.validated.reached
    /\ Len(dParse.validated.fm.name) = 65
    /\ dParse.validated.fm.desc = <<"d">>
    /\ dParse.err = "ErrNameTooLong" /\ dMeta.err = "ErrNameTooLong"


\* the lines that are not blank, and those that trim to `---`
NonBlank(doc) == { i \in DOMAIN doc : TrimSpace(doc[i]) # <<>> }
Delims(doc) == { i \in DOMAIN doc : TrimSpace(doc[i]) = Dash3 }

\* the first line of the trimmed document
Lead(doc) == CHOOSE i \in NonBlank(doc) : \A j \in NonBlank(doc) : i <= j

\* the next delimiter after the first line
Closing(doc) ==
    CHOOSE i \in Delims(doc) : i > Lead(doc) /\ \A j \in Delims(doc) : j > Lead(doc) => i <= j

\* the document begins with a `---` line and has a closing one
WellDelimited(doc) ==
    /\ NonBlank(doc) # {}
    /\ Lead(doc) \in Delims(doc)
    /\ \E i \in Delims(doc) : i > Lead(doc)

IsFormatError(err) == err \in {"ErrInvalidFrontmatter", "missing closing"}

\* C12: Parse rejects with an invalid-format error exactly the documents
\* that do not begin, after trimming, with a line that is exactly `---` or
\* that have no closing delimiter; of the others the header is the block
\* strictly between the two delimiters and the body is everything after the
\* second one, trimmed.
C12_FrontmatterSplit ==
    dParse # NoResult =>
        /\ IsFormatError(dParse.err) <=> ~WellDelimited(dDoc)
        /\ dParse.err = "none" =>
              /\ dParse.fm =
                    Unmarshal(SubSeq(dDoc, Lead(dDoc) + 1, Closing(dDoc) - 1), NoFm, {}).fm
              /\ dParse.body = TrimSpace(Join(SubSeq(dDoc, Closing(dDoc) + 1, Len(dDoc))))

(***************************************************************************)
(* C13  LoadSkill(name) returns the project root's skill whenever the      *)
(* project root holds a valid skill in the directory `name`; otherwise the *)
(* global root's skill when that one is valid; and a not-found error that  *)
(* carries `name` exactly when neither root holds a valid one.             *)
(***************************************************************************)
ValidAt(fs, source, name) ==
    /\ RootOf(fs, source).state = "ok"
    /\ RootOf(fs, source).dirs[name].kind = "valid"

SkillAt(fs, source, name) ==
    [name |-> RootOf(fs, source).dirs[name].name,
     desc |-> RootOf(fs, source).dirs[name].desc,
     source |-> source,
     path |-> SkillPath(source, name)]

C13_ProjectThenGlobal ==
    lSkill # NoResult =>
        /\ ValidAt(lFs, SourceProject, lName) =>
              lSkill.err = "none" /\ lSkill.skill = SkillAt(lFs, SourceProject, lName)
        /\ (~ValidAt(lFs, SourceProject, lName) /\ ValidAt(lFs, SourceGlobal, lName)) =>
              lSkill.err = "none" /\ lSkill.skill = SkillAt(lFs, SourceGlobal, lName)
        /\ (lSkill.err = "notfound" /\ lSkill.path = lName)
              <=> (~ValidAt(lFs, SourceProject, lName) /\ ~ValidAt(lFs, SourceGlobal, lName))
        /\ lSkill.err \in {"none", "notfound"}

\* both roots hold a valid skill in the directory asked for, with different
\* descriptions, and the call has returned
C13_Witness ==
    /\ lName = "a"
    /\ ValidAt(lFs, SourceProject, "a") /\ ValidAt(lFs, SourceGlobal, "a")
    /\ lFs.project.dirs["a"].desc = "d2" /\ lFs.global.dirs["a"].desc = "d1"
    /\ lSkill # NoResult
    /\ lSkill.err = "none" /\ lSkill.skill.source = SourceProject

(***************************************************************************)
(* C14  A by-name load propagates the first error: when some root holds a  *)
(* document for the name and none holds a valid one, LoadSkill returns the *)
(* parse or validation error of that document; it returns not-found only   *)
(* when no root holds a document for the name.                             *)
(***************************************************************************)
MalformedAt(fs, source, name) ==
    /\ RootOf(fs, source).state = "ok"
    /\ RootOf(fs, source).dirs[name].kind \in {"invalid", "metaonly"}

C14_ErrorPropagates ==
    lSkill # NoResult =>
        /\ ( /\ \E src \in {SourceProject, SourceGlobal} : MalformedAt(lFs, src, lName)
             /\ \A src \in {SourceProject, SourceGlobal} : ~ValidAt(lFs, src, lName) )
              => lSkill.err = "parse"
        /\ lSkill.err = "notfound" =>
              \A src \in {SourceProject, SourceGlobal} :
                  ~MalformedAt(lFs, src, lName) /\ ~ValidAt(lFs, src, lName)

(***************************************************************************)
(* C15  In LoadMetadataOnly and LoadAll a root that does not exist         *)
(* contributes no skills and no error: the call succeeds with the other    *)
(* root's entries.  A root that cannot be read for another reason makes    *)
(* the whole call fail, with an error and no result.                       *)
(***************************************************************************)
BothSources == {SourceGlobal, SourceProject}

Unreadable(fs) == \E src \in BothSources : RootOf(fs, src).state = "ioerr"

BulkRootOutcome(r, Accepts(_)) ==
    r # NoResult =>
        /\ Unreadable(lFs) => r.err # "none" /\ r.list = <<>>
        /\ (\A src \in BothSources : RootOf(lFs, src).state = "absent") =>
              r.err = "none" /\ r.list = <<>>
        /\ (~Unreadable(lFs) /\ ~lCancelled) =>
              /\ r.err = "none"
              /\ \A src \in BothSources :
                    RootOf(lFs, src).state = "absent" =>
                        \A i \in 1..Len(r.list) : r.list[i].source # src
              /\ \A src \in BothSources : \A d \in DirNames :
                    (RootOf(lFs, src).state = "ok" /\ Accepts(RootOf(lFs, src).dirs[d])) =>
                        \E i \in 1..Len(r.list) :
                            r.list[i].name = RootOf(lFs, src).dirs[d].name

C15_AbsentRootTolerated ==
    /\ BulkRootOutcome(lMeta, MetaParses)
    /\ BulkRootOutcome(lAll, FullParses)

\* the global root does not exist, the project root holds one valid skill,
\* and both calls have returned it
C15_Witness ==
    /\ lFs.global.state = "absent"
    /\ lFs.project.state = "ok"
    /\ lFs.project.dirs["a"] = [kind |-> "valid", name |-> "b", desc |-> "d1"]
    /\ lFs.project.dirs["b"].kind = "nodir"
    /\ lMeta # NoResult /\ lAll # NoResult
    /\ lMeta.err = "none" /\ Len(lMeta.list) = 1 /\ lMeta.list[1].name = "b"
    /\ lAll.err = "none" /\ Len(lAll.list) = 1 /\ lAll.list[1].source = SourceProject

(***************************************************************************)
(* C16  Bulk loading is tolerant: a candidate directory without SKILL.md   *)
(* or with an invalid document is skipped and reported as a warning; the   *)
(* call succeeds and its result is exactly the valid entries.              *)
(***************************************************************************)
Candidates(fs) ==
    { SkillPath(src, d) : src \in { x \in BothSources : RootOf(fs, x).state = "ok" },
                          d \in DirNames }

DocAt(fs, path) == RootOf(fs, path.root).dirs[path.dir]

BadCandidates(fs) ==
    { c \in Candidates(fs) : DocAt(fs, c).kind \in {"missing", "invalid", "metaonly"} }

ValidCandidates(fs) == { c \in Candidates(fs) : DocAt(fs, c).kind = "valid" }

SkippedAndListed(r) ==
    /\ r.err = "none"
    /\ \A i \in 1..Len(r.list) : r.list[i].path \in ValidCandidates(lFs)
    /\ \A c \in ValidCandidates(lFs) :
          \E i \in 1..Len(r.list) : r.list[i].name = DocAt(lFs, c).name

Tolerant(r) ==
    (r # NoResult /\ ~Unreadable(lFs) /\ ~lCancelled) =>
        SkippedAndListed(r) /\ r.warned = BadCandidates(lFs)

C16_TolerantBulk == Tolerant(lMeta) /\ Tolerant(lAll)

(***************************************************************************)
(* Start, checked under SpecLifecycle.  A watcher is running when          *)
(* w.running is set: from a Start that found it clear until a Stop.        *)
(***************************************************************************)
\* a call of Start leaves its first step: rejected exactly when the watcher
\* is running, and then no loop is launched; otherwise it goes on to launch
StartDecides(t) ==
    (stPc[t] = "idle" /\ stPc'[t] # "idle") =>
        IF running
        THEN stPc'[t] = "failed" /\ launched' = launched /\ loopPc' = loopPc
        ELSE stPc'[t] = "launch" /\ running'

\* a call that went on launches one loop and returns no error
StartLaunchesOne(t) ==
    (stPc[t] = "launch" /\ stPc'[t] # "launch") =>
        stPc'[t] = "ok" /\ launched' = launched + 1 /\ loopPc' # "off"

\* loops are launched by calls of Start that return no error, one each; of
\* calls made with no Stop in between, at most one is not rejected
OneLoopPerStart ==
    /\ launched = Cardinality({ t \in Starters : stPc[t] = "ok" })
    /\ (\A c \in Stoppers : sPc[c] = "idle") =>
          Cardinality({ t \in Starters : stPc[t] \in {"launch", "ok"} }) <= 1
    /\ (\A t \in Starters : stPc[t] \in {"ok", "failed"}) => launched >= 1

\* C17: Start on a watcher that is not running launches exactly one event
\* loop and returns no error, also when the root does not exist; Start on a
\* running watcher returns the already-running error and launches none,
\* however concurrent calls of Start interleave.
C17_StartOnce ==
    /\ []OneLoopPerStart
    /\ [][\A t \in Starters : StartDecides(t) /\ StartLaunchesOne(t)]_vars

\* the root does not exist; of two calls of Start, with no Stop, one has
\* launched the loop and the other was rejected
C17_Witness ==
    /\ ~rootExists
    /\ stPc["t1"] = "failed" /\ stPc["t2"] = "ok"
    /\ launched = 1
    /\ loopPc = "select"
    /\ \A c \in Stoppers : sPc[c] = "idle"

(***************************************************************************)
(* The event filter and new directories, checked under SpecNewDir.         *)
(***************************************************************************)
\* the loop takes the event at the head of the channel
Takes(k) == events # <<>> /\ Head(events) = k /\ events' = Tail(events)

\* C18: only a Write or Create of a file named SKILL.md arms the debounce
\* timer; the Create of a directory registers the directory; every other
\* event (a Remove, Rename or Chmod of SKILL.md, any event on another file)
\* leaves the timer and the pending flag as they are.
C18_EventFilter ==
    [][ /\ Takes("skill") =>
              /\ pending'
              /\ timer'.active /\ timer'.deadline = now + DebounceTicks
        /\ Takes("newdir") =>
              /\ newDir = "created" => newDir' = "registered"
              /\ timer' = timer /\ pending' = pending
        /\ (Takes("skillop") \/ Takes("other")) =>
              timer' = timer /\ pending' = pending /\ newDir' = newDir ]_vars

\* a change of a SKILL.md is on its way to a reload: its event waits in the
\* channel, or the loop has taken one and not yet reloaded
ChangeInFlight ==
    \/ \E i \in 1..Len(events) : events[i] \in {"skill", "skillop"}
    \/ pending

\* C19: a directory made under a watched directory while the loop runs is
\* registered, and a SKILL.md written in it after it was made leads to a
\* reload: once written, the change is on its way to a reload or a reload
\* has run.  The watcher is never stopped here.
C19_NewDirMonitored ==
    /\ newDir = "created" => \E i \in 1..Len(events) : events[i] = "newdir"
    /\ newDir \in {"missed", "notified"} => ChangeInFlight \/ lastReload # "none"

(***************************************************************************)
(* Failed reloads, checked under SpecWatcher.                              *)
(***************************************************************************)
\* triggerReload returns to the loop
ReloadReturns == loopPc = "reload" /\ loopPc' # "reload"

\* after a reload, failed or not, the loop is back at its select with no
\* timer and nothing pending
BackToIdle == loopPc' = "select" /\ timer' = NoTimer /\ ~pending'

\* the loop has taken a qualifying event since the reload that failed:
\* the timer is armed or has fired, and the next reload begins no later
\* than a window after the event
RetryArmed ==
    (lastReload = "failed" /\ pending /\ loopPc = "select") =>
        /\ timer.set /\ (timer.active \/ timer.c)
        /\ Quiet <= DebounceTicks

\* C20: a reload that fails leaves the loop running as a successful one
\* does, with no timer armed and nothing pending; the next qualifying event
\* arms the timer and leads to a new attempt.
C20_FailedReloadNotFatal ==
    /\ []RetryArmed
    /\ [][ReloadReturns => BackToIdle]_vars
    /\ [][(lastReload = "failed" /\ Takes("skill")) =>
             (pending' /\ timer'.active /\ timer'.deadline = now + DebounceTicks)]_vars

\* a reload has failed, a later event has armed the timer, the timer has
\* fired and the new attempt is running
C20_Witness ==
    /\ lastReload = "failed"
    /\ loopPc = "reload"
    /\ reloadsSince = 1
    /\ prevReloads = 1

(***************************************************************************)
(* Query claims, checked under SpecQuery.                                  *)
(***************************************************************************)
\* the words of the query, lower-cased
QueryWords == Fields(ToLower(qQuery))

\* three for every query word found in the lower-cased name, one for every
\* query word of more than two characters found in the lower-cased
\* description
ScoreOf(i) ==
    3 * Cardinality({ k \in 1..Len(QueryWords) :
                        Contains(ToLower(qMeta[i].name), QueryWords[k]) })
    + Cardinality({ k \in 1..Len(QueryWords) :
                      /\ Len(QueryWords[k]) > 2
                      /\ Contains(ToLower(qMeta[i].desc), QueryWords[k]) })

IsMaxScore(i) == \A j \in 1..Len(qMeta) : ScoreOf(j) <= ScoreOf(i)

\* C21: FindMatchingSkill returns the first entry in list order whose
\* score is the maximum, when that maximum is at least 2, and no entry
\* otherwise.
C21_KeywordMatch ==
    qMatch # NoResult =>
        IF \E i \in 1..Len(qMeta) : ScoreOf(i) >= 2
        THEN /\ qMatch.found
             /\ qMatch.index \in 1..Len(qMeta)
             /\ IsMaxScore(qMatch.index)
             /\ \A j \in 1..(qMatch.index - 1) : ~IsMaxScore(j)
        ELSE ~qMatch.found

\* two entries share the maximum, 4: the name and a three-letter word of
\* the description; the first is returned
C21_Witness ==
    /\ Len(qMeta) = 2
    /\ qQuery = <<"A", "B", " ", "a", "b", "b">>
    /\ qMatch # NoResult
    /\ ScoreOf(1) = 4 /\ ScoreOf(2) = 4
    /\ qMatch.found /\ qMatch.index = 1

\* lines of the text that are the tag t
CountTag(lines, t) == Cardinality({ i \in 1..Len(lines) : lines[i] = Tag(t) })

\* one wrapper around one entry per metadata entry, in list order
OneWrapper(lines) ==
    /\ CountTag(lines, "<available_skills>") = 1
    /\ CountTag(lines, "</available_skills>") = 1
    /\ lines[1] = Tag("<available_skills>")
    /\ lines[Len(lines)] = Tag("</available_skills>")
    /\ CountTag(lines, "<skill>") = Len(qMeta)
    /\ CountTag(lines, "</skill>") = Len(qMeta)
    /\ \A i \in 1..Len(qMeta) :
          \E k \in 1..Len(lines) :
              /\ lines[k] = Tag("<skill>")
              /\ CountTag(SubSeq(lines, 1, k), "<skill>") = i
              /\ lines[k + 2] = Text(qMeta[i].name)
              /\ lines[k + 5] = Text(qMeta[i].desc)

\* C22: the section is empty exactly when the metadata list is, and is
\* otherwise one wrapper with one entry per metadata entry; InjectPrompt
\* returns the base prompt as it is when the section is empty, so no
\* wrapper without entries is written.
C22_PromptSection ==
    /\ qSection # NoResult =>
          /\ qSection.lines = <<>> <=> qMeta = <<>>
          /\ qMeta # <<>> => OneWrapper(qSection.lines)
    /\ qPrompt # NoResult =>
          /\ qMeta = <<>> => qPrompt.lines = qBase
          /\ CountTag(qPrompt.lines, "<available_skills>") = (IF qMeta = <<>> THEN 0 ELSE 1)
          /\ CountTag(qPrompt.lines, "<skill>") = Len(qMeta)

\* a list of two entries rendered: the section holds two entries and the
\* prompt is the base prompt with the section after it
C22_Witness ==
    /\ Len(qMeta) = 2
    /\ qSection # NoResult /\ qPrompt # NoResult
    /\ CountTag(qSection.lines, "<skill>") = 2
    /\ qPrompt.lines # qBase

(***************************************************************************)
(* Content claim, checked under SpecContent.                               *)
(***************************************************************************)
\* a call of LoadSkillContent
ContentCall == cCalls' = cCalls + 1

\* C23: the body is loaded once per Skill.  A call on a Skill with no body
\* reads the document and, when that succeeds, sets the body to it; once a
\* call has done that, every later call on the Skill returns the stored
\* body, reads nothing and leaves the Skill as it is.
C23_ContentLoadedOnce ==
    [][ContentCall =>
          /\ (cSkill.content = "" /\ ~cSet) =>
                /\ cReads' = cReads + 1
                /\ ~cFile.err => cSkill'.content = cFile.body /\ cOut'.content = cFile.body
          /\ cSet =>
                /\ cReads' = cReads
                /\ cSkill' = cSkill
                /\ ~cOut'.err /\ cOut'.content = cSkill.content ]_vars

(***************************************************************************)
(* Registry claims on the watcher it owns, checked under SpecRegWatch.     *)
(***************************************************************************)
\* C24: a registry owns at most one watcher.  Under every interleaving of
\* Initialize, Reload, StartWatching and StopWatching at most one watcher
\* event loop of the registry is running.
C24_OneWatcher == Cardinality(Running) <= 1

(***************************************************************************)
(* Registry claims on reload and cache, checked under Spec (C25) and       *)
(* SpecCache.                                                              *)
(***************************************************************************)
\* C25: Initialize and Reload run discovery without holding the registry
\* lock, so that readers can complete during discovery: while a call is at
\* its discovery, no writer holds r.mu.
C25_DiscoveryUnlocked ==
    \A p \in Procs : pc[p] = "init_load" => mu.writer = "none"

\* two callers are past a miss for the same name, each with its own load
BothLoad(p, q) ==
    /\ p # q
    /\ pc[p] \in {"get_load", "get_insert"}
    /\ pc[q] \in {"get_load", "get_insert"}
    /\ loc[p].name = loc[q].name

\* the cache holds a name exactly when something was inserted under it since
\* the last reset, and then holds the instance inserted last
LastInsertWins ==
    \A n \in SkillNames :
        /\ n \in DOMAIN skills <=> inserted[n] # <<>>
        /\ inserted[n] # <<>> => skills[n].id = Last(inserted[n])

\* a caller that has loaded leaves Get only by storing the Skill it loaded
\* under its name and returning it
LoadedReturns ==
    \A p \in Procs :
        (pc[p] = "get_insert" /\ pc'[p] # "get_insert") =>
            /\ loc[p].name \in DOMAIN skills'
            /\ skills'[loc[p].name] = loc[p].skill
            /\ Last(inserted'[loc[p].name]) = loc[p].skill.id

\* C26 as stated: whenever two concurrent Gets of one uncached name both
\* invoke the loader, both return without error, and afterwards the cache
\* holds one entry for the name, the one inserted last.
C26_BothSucceed ==
    /\ []LastInsertWins
    /\ [][\A p, q \in Procs : BothLoad(p, q) => ~GetLoadFail(p)]_vars

\* C26, amended: two concurrent Gets of one uncached name can both invoke
\* the loader; each of them whose load succeeds stores and returns the Skill
\* it loaded, a load that fails returns its error and stores nothing, and
\* the cache holds one entry for the name, the one inserted last.
C26_LastInsertWins ==
    /\ []LastInsertWins
    /\ [][LoadedReturns]_vars
    /\ [][\A p \in Procs : GetLoadFail(p) => skills' = skills]_vars

\* C26 happens: two callers have both loaded the same name, each its own
\* instance, one has inserted and returned, and the other is about to
\* insert over it.
C26_Witness ==
    \E p \in Procs : \E n \in SkillNames :
        /\ pc[p] = "get_insert" /\ loc[p].name = n
        /\ Len(inserted[n]) = 1
        /\ inserted[n][1] # loc[p].skill.id
        /\ loc[p].skill.id < inserted[n][1]

\* C27: no stale cache entry survives a reload.  With every call returned,
\* each cached Skill was read from disk after the last reset of the cache.
C27_NoStaleEntry ==
    (\A p \in Procs : pc[p] = "idle") =>
        \A n \in DOMAIN skills : skills[n].gen = cacheGen

\* a call of Initialize or Reload stands at its discovery or returns from
\* it with the error
AtOrFailingDiscovery(p) == pc[p] = "init_load" /\ pc'[p] \in {"init_load", "idle"}

\* C28: failed operations leave the registry as it was.  From the moment a
\* call of Initialize or Reload has the lock until it returns the error of
\* its discovery, the metadata list and the cache do not change; a Get
\* whose load fails inserts nothing.
C28_FailureLeavesState ==
    /\ [][\A p \in Procs : AtOrFailingDiscovery(p) =>
              metadata' = metadata /\ skills' = skills]_vars
    /\ [][\A p \in Procs : GetLoadFail(p) =>
              metadata' = metadata /\ skills' = skills /\ inserted' = inserted]_vars

\* C28 happens: a reload that began after a successful one has failed and
\* returned, every call has returned, and the registry holds a list and a
\* cached Skill.
C28_Witness ==
    /\ \A p \in Procs : pc[p] = "idle"
    /\ \E p \in Procs : loc[p].op = "Initialize" /\ loc[p].gen >= 1
    /\ metadata # <<>>
    /\ skills # EmptyMap

(***************************************************************************)
(* Loader claim on the metadata list against by-name loading, checked      *)
(* under SpecLoader.  Registry.Get returns what Loader.LoadSkill returns   *)
(* (part_001:112-121), and Initialize keeps the list LoadMetadataOnly      *)
(* returns (part_001:78-83).                                               *)
(***************************************************************************)
\* C29: the metadata list and by-name lookup agree.  Over one filesystem,
\* loading by the name of an entry of the list succeeds with a Skill whose
\* name, source and directory path are the entry's.
C29_MetadataLookupAgree ==
    (lMeta # NoResult /\ lSkill # NoResult /\ lMeta.err = "none") =>
        \A i \in DOMAIN lMeta.list :
            lMeta.list[i].name = lName =>
                /\ lSkill.err = "none"
                /\ lSkill.skill.name = lMeta.list[i].name
                /\ lSkill.skill.source = lMeta.list[i].source
                /\ lSkill.skill.path = lMeta.list[i].path

(***************************************************************************)
(* Document claim on the two parses, checked under SpecDoc.  Every         *)
(* document of the harness has its header within its first 100 lines.      *)
(***************************************************************************)
\* C30: metadata-only parsing is full parsing on the header.  Of one
\* document, ParseMetadataOnly succeeds exactly when Parse does, and then
\* with the same name and description; both reject a document that does
\* not begin with a `---` line or has no closing delimiter.
C30_MetadataOnlyAgrees ==
    (dParse # NoResult /\ dMeta # NoResult) =>
        /\ dMeta.err = "none" <=> dParse.err = "none"
        /\ (dMeta.err = "none" /\ dParse.err = "none") =>
              /\ dMeta.fm.name = dParse.fm.name
              /\ dMeta.fm.desc = dParse.fm.desc
        /\ ~WellDelimited(dDoc) => dMeta.err # "none" /\ dParse.err # "none"

(***************************************************************************)
(* Watcher claims on its whole lifetime, checked under SpecLifecycle.      *)
(***************************************************************************)
\* C31: resources are released on exit.  Close is called on the
\* notification handle once and no more, a loop that has exited has left
\* the handle closed, and no timer is left armed by a loop that has exited.
C31_ReleasedOnce ==
    /\ fsw # "reclosed"
    /\ loopPc \in {"exited", "panic"} => fsw = "closed" /\ ~timer.active

\* C32: the lifecycle calls are safe in every order.  No call of Start or
\* Stop and no loop panics, which a second close of the stop channel or of
\* the done channel does.
C32_LifecycleSafe ==
    /\ loopPc # "panic"
    /\ \A c \in Stoppers : sPc[c] # "panic"


\* ------------------------------------------------------------------
\* Registry claims on watching, checked under SpecRegWatch.

\* C33: StopWatching is durable.  Once a StopWatching has stopped the
\* watcher and returned (no other watcher running, no start under way), and
\* as long as no caller has called StartWatching since, no watcher's event
\* loop runs (so none can trigger a reload), whatever
\* Initialize and Reload calls are made in between, with auto-watch on too.
C33_StopDurable == stopped => Running = {}


\* ------------------------------------------------------------------
\* Watcher liveness, checked under SpecDebounce.

\* the watcher is stopped or its context cancelled
Gone == ctxDone \/ stopCh = "closed" \/ ~running

QualifyingQueued == \E i \in DOMAIN events : events[i] \in {"skill", "skillop"}

\* C34: debounce liveness.  From every state in which the running loop has
\* received a qualifying event and not yet reloaded for it, a Registry.Reload
\* is eventually executed, unless the watcher is stopped or cancelled first;
\* and a qualifying event that the source reports while a reload is
\* executing is eventually received by the loop (and so leads to a further
\* reload), unless the watcher is stopped or cancelled first.
C34_DebounceLive ==
    /\ (loopPc = "select" /\ pending) ~> (loopPc = "reload" \/ Gone)
    /\ (loopPc = "reload" /\ QualifyingQueued) ~> ((loopPc = "select" /\ pending) \/ Gone)

\* a second reload is executing, for an event received after the first
\* reload began, on a watcher neither stopped nor cancelled
C34_Witness ==
    /\ loopPc = "reload"
    /\ lastReload # "none"
    /\ ~Gone


\* ------------------------------------------------------------------
\* The scan's limit, checked under SpecLongDoc.

\* the opening delimiter: the first line that trims to `---`
Opening(doc) == CHOOSE i \in Delims(doc) : \A j \in Delims(doc) : i <= j

\* a closing delimiter stands within n lines after the opening one
ClosedWithin(doc, n) ==
    \E i \in Delims(doc) : i > Opening(doc) /\ i <= Opening(doc) + n

\* C35: malformed-document guard.  ParseMetadataOnly fails with the
\* too-long error when 100 lines follow the opening delimiter with no
\* closing delimiter among them, and does not fail with that error when a
\* closing delimiter stands within the 100 lines after the opening one,
\* wherever in the file the opening delimiter stands.
C35_LineGuard ==
    (dMeta # NoResult /\ Delims(dDoc) # {}) =>
        /\ (Len(dDoc) >= Opening(dDoc) + LineLimit /\ ~ClosedWithin(dDoc, LineLimit))
               => dMeta.err = "too long"
        /\ ClosedWithin(dDoc, LineLimit) => dMeta.err # "too long"


\* ------------------------------------------------------------------
\* Parser claims, checked under SpecParser (continued).

\* the body's lines without their leading whitespace
Unindented(body) == [i \in 1..Len(body) |-> TrimLeftSpace(body[i])]

\* the k-th heading line of the body begins with whitespace
Indented(body, k) ==
    /\ k <= Cardinality(OutlineHeadings(body))
    /\ TrimLeftSpace(body[Nth(OutlineHeadings(body), k)]) # body[Nth(OutlineHeadings(body), k)]

\* C36: a heading line preceded by whitespace is a heading of the outline:
\* the outline is that of the body without the leading whitespace of its
\* lines, and the line of such a heading is its markup and label behind
\* 2*(level-1) spaces, the level being the number of its '#'.
C36_LeadingWhitespace ==
    TOCCalled =>
        /\ pTOC.lines = ExtractTOC(Unindented(pBody)).lines
        /\ Len(pTOC.lines) = Cardinality(OutlineHeadings(pBody))
        /\ \A k \in 1..Len(pTOC.lines) :
              Indented(pBody, k) =>
                 LET h == TrimLeftSpace(pBody[Nth(OutlineHeadings(pBody), k)])
                 IN  pTOC.lines[k] =
                       Rep(" ", 2 * (HashRun(h) - 1)) \o SubSeq(h, 1, HashRun(h))
                           \o <<" ">> \o LabelOf(h)

\* C36 witness: a level-2 heading behind one space, after a level-1
\* heading; its line has two spaces
C36_Witness ==
    /\ TOCCalled
    /\ pBody = << HeadingLine(1, <<"B">>), <<" ", "#", "#", " ", "A">> >>
    /\ pTOC.lines = << HeadingLine(1, <<"B">>), <<" ", " ", "#", "#", " ", "A">> >>


\* ------------------------------------------------------------------
\* Query claims, checked under SpecQuery (continued).

\* a list the loader can emit: its entries are the values of a map keyed by
\* name (loader.go:88, 208)
DistinctNames(list) ==
    \A i, j \in 1..Len(list) : i # j => list[i].name # list[j].name

\* the entry a match points to
MatchedEntry(list, match) == IF match.found THEN list[match.index] ELSE NoMatch

\* C37: keyword matching is deterministic.  The entry FindMatchingSkill
\* returns for a query is the same for every order in which the loader can
\* emit the same entries (loader.go:105-110 ranges over a map), ties on the
\* maximum score included.
C37_OrderIndependent ==
    (qMatch # NoResult /\ DistinctNames(qMeta)) =>
        \A l \in MapOrders(PutAll(EmptyMap, qMeta)) :
            MatchedEntry(l, FindMatchingSkill(l, qQuery)) = MatchedEntry(qMeta, qMatch)

====
